---- MODULE Spec2Model ----
(***************************************************************************)
(* Model of the hours reports of jira-dashboard:                           *)
(*   - DataProcessor._hours_report          (src/data_processor.py)        *)
(*   - fetch_worklogs, build_employee_match, build_comparison_data,        *)
(*     build_leaves_data, generate_html and the archival computation       *)
(*     (src/report_hours.py), with the view functions of the generated     *)
(*     page (isArchived, buildPersonal, buildComparison, buildLeaves,      *)
(*     cpDiffCell).                                                        *)
(*                                                                         *)
(* Representation.                                                         *)
(*   A month "YYYY-MM" is the pair <<y, m>>, a date "YYYY-MM-DD" the       *)
(*   triple <<y, m, d>>; the zero-padded strings of the code compare as    *)
(*   these tuples compare component by component.                          *)
(*   Hours are binary floating point numbers (float of Python, Number of   *)
(*   JavaScript) and are modelled as such, rounding included: a sum of     *)
(*   worked time is the pair of its exact value in seconds and of the      *)
(*   rounding error the float carries, the operands of cpDiffCell are      *)
(*   mantissa and exponent.  A value rounded to one decimal is kept as its *)
(*   number of tenths.                                                     *)
(*   An issue key is the sequence of its parts between hyphens:            *)
(*   <<"ABC", "1">> is "ABC-1", <<"NOKEY">> has no hyphen.                 *)
(***************************************************************************)
EXTENDS Integers, Sequences, FiniteSets, TLC

\* ------------------------------------------------------------------------
\* Bounds of the model
\* ------------------------------------------------------------------------
MaxWorklogs == 3

\* ------------------------------------------------------------------------
\* Generic helpers
\* ------------------------------------------------------------------------
Max(a, b) == IF a >= b THEN a ELSE b

Abs(a) == IF a >= 0 THEN a ELSE -a

RECURSIVE SumSeq(_)
SumSeq(s) == IF s = <<>> THEN 0 ELSE Head(s) + SumSeq(Tail(s))

RECURSIVE SumOver(_, _)
SumOver(S, f) ==
  IF S = {} THEN 0
  ELSE LET x == CHOOSE y \in S : TRUE IN f[x] + SumOver(S \ {x}, f)

Range(s) == {s[i] : i \in DOMAIN s}

\* s without its i-th element
RemoveAt(s, i) == SubSeq(s, 1, i - 1) \o SubSeq(s, i + 1, Len(s))

\* the keys of a dict in insertion order: first occurrences of s, in order
RECURSIVE Distinct(_)
Distinct(s) ==
  IF s = <<>> THEN <<>>
  ELSE LET r == Distinct(SubSeq(s, 1, Len(s) - 1))
           x == s[Len(s)]
       IN IF x \in Range(r) THEN r ELSE Append(r, x)

\* list.sort(key=...) is stable: x goes behind every element whose key is
\* not larger
RECURSIVE InsertByKey(_, _, _)
InsertByKey(x, s, key) ==
  IF s = <<>> THEN <<x>>
  ELSE IF key[Head(s)] <= key[x]
       THEN <<Head(s)>> \o InsertByKey(x, Tail(s), key)
       ELSE <<x>> \o s

RECURSIVE SortByKey(_, _)
SortByKey(s, key) ==
  IF s = <<>> THEN <<>>
  ELSE InsertByKey(s[Len(s)], SortByKey(SubSeq(s, 1, Len(s) - 1), key), key)

\* ------------------------------------------------------------------------
\* Floats that hold hours (IEEE 754 binary64, round to nearest, ties to
\* even).  Every such float is a sum of terms seconds / 3600, so it is kept
\* as [s, e]: its value is s / 3600 + e * 2^-60 / 225 hours, s the exact
\* number of seconds and e the rounding error it carries.  In the unit
\* 2^-60 / 225 the value is the integer s * 2^56 + e, and the floats of the
\* binade [2^k, 2^(k+1)) are the multiples of 225 * 2^(8+k).  Values from
\* 2^-8 h (15 s) to 2^11 h are covered, and zero.
\* ------------------------------------------------------------------------

\* 2^n mod 450 for n in 1..60
Pow2Mod450 ==
  <<2, 4, 8, 16, 32, 64, 128, 256, 62, 124, 248, 46,
     92, 184, 368, 286, 122, 244, 38, 76, 152, 304, 158, 316,
     182, 364, 278, 106, 212, 424, 398, 346, 242, 34, 68, 136,
     272, 94, 188, 376, 302, 154, 308, 166, 332, 214, 428, 406,
     362, 274, 98, 196, 392, 334, 218, 436, 422, 394, 338, 226>>

Log2Floor(q) == CHOOSE j \in 0..19 : 2 ^ j <= q /\ q < 2 ^ (j + 1)

\* the k with 2^k <= s / 3600 + e * 2^-60 / 225 < 2^(k+1), given
\* j = floor(log2(256 * s / 3600))
HExpAt(s, e, j) == IF s * 256 = 3600 * 2 ^ j /\ e < 0 THEN j - 9 ELSE j - 8

HExp(s, e) == HExpAt(s, e, Log2Floor((s * 256) \div 3600))

\* the multiple of step nearest to the integer n = s * 2^56 + e, of which r
\* is the remainder by step and odd the parity of the quotient: ties go to
\* the even multiple
HRoundTo(s, e, step, r, odd) ==
  [s |-> s,
   e |-> IF 2 * r > step \/ (2 * r = step /\ odd) THEN e - r + step
         ELSE e - r]

\* the same, given low = n mod (2 * step)
HRoundLow(s, e, step, low) == HRoundTo(s, e, step, low % step, low >= step)

\* the float of the binade of exponent k nearest to n
HRoundAt(s, e, k) ==
  HRoundLow(s, e, 225 * 2 ^ (8 + k),
            (2 ^ (8 + k) * (((s % 450) * Pow2Mod450[48 - k]) % 450) + e)
              % (450 * 2 ^ (8 + k)))

\* the float nearest to s / 3600 + e * 2^-60 / 225: what an operation whose
\* exact result is this number returns
HNearest(s, e) ==
  IF s = 0 /\ e = 0 THEN [s |-> 0, e |-> 0] ELSE HRoundAt(s, e, HExp(s, e))

HZero == [s |-> 0, e |-> 0]

\* seconds / 3600
HOf(seconds) == HNearest(seconds, 0)

\* the float of a value of k tenths, as round(x, 1) returns it and as the
\* page reads it
HTenths(k) == HNearest(360 * k, 0)

\* x + y
HAdd(x, y) == HNearest(x.s + y.s, x.e + y.e)

\* the floats of a sequence added from the left, from 0
RECURSIVE HSum(_)
HSum(xs) ==
  IF xs = <<>> THEN HZero
  ELSE HAdd(HSum(SubSeq(xs, 1, Len(xs) - 1)), xs[Len(xs)])

\* round(x, 1) in tenths: the decimal value of the float decides, which is
\* on a tie of the exact value the sign of the error
HRound1(x) ==
  IF x.s % 360 # 180 THEN (x.s + 180) \div 360
  ELSE IF x.e > 0 THEN x.s \div 360 + 1
  ELSE IF x.e < 0 THEN x.s \div 360
  ELSE IF (x.s \div 360) % 2 = 1 THEN x.s \div 360 + 1 ELSE x.s \div 360

\* round(sum of values given in tenths, 1)
HRoundSum(ks) == HRound1(HSum([i \in DOMAIN ks |-> HTenths(ks[i])]))

\* ------------------------------------------------------------------------
\* Strings and their order (sorted() compares by code point)
\* ------------------------------------------------------------------------
UserNames == {"Ana", "Bob"}

IssueKeys == {<<"ABC", "1">>, <<"ABC", "2">>, <<"NOKEY">>}

\* rank of the strings among themselves
StrRank ==
  [x \in UserNames \cup {"ABC", "OTHER", "Zoe"} |->
     CASE x = "ABC" -> 1
       [] x = "Ana" -> 2
       [] x = "Bob" -> 3
       [] x = "OTHER" -> 4
       [] x = "Zoe" -> 5]

\* rank of the issue keys among themselves: "ABC-1" < "ABC-2" < "NOKEY"
KeyRank ==
  [x \in IssueKeys |->
     CASE x = <<"ABC", "1">> -> 1
       [] x = <<"ABC", "2">> -> 2
       [] x = <<"NOKEY">> -> 3]

\* sorted(keys), keys given in insertion order
Sorted(keys) == SortByKey(keys, StrRank)

SortedIssues(keys) == SortByKey(keys, KeyRank)

\* ------------------------------------------------------------------------
\* The Numbers of the page's script: IEEE 754 binary64, round to nearest,
\* ties to even.  A Number is m * 2^e with the 53-bit integer m kept as
\* limbs of 15 bits, the least significant first; zero has m = 0.
\* ------------------------------------------------------------------------
LimbBase == 32768

NLimbs == 8

\* the limbs of an integer below 2^30
BigOf(n) ==
  <<n % LimbBase, n \div LimbBase, 0, 0, 0, 0, 0, 0>>

\* the limbs from i on of a + s * b + carry, for s = 1 and for s = -1 with
\* a >= b
RECURSIVE BigSum(_, _, _, _, _)
BigSum(a, b, s, i, carry) ==
  IF i > NLimbs THEN <<>>
  ELSE <<(a[i] + s * b[i] + carry) % LimbBase>>
       \o BigSum(a, b, s, i + 1, (a[i] + s * b[i] + carry) \div LimbBase)

\* -1, 0, 1 as a < b, a = b, a > b, from limb i down
RECURSIVE BigCmp(_, _, _)
BigCmp(a, b, i) ==
  IF i = 0 THEN 0
  ELSE IF a[i] < b[i] THEN -1
  ELSE IF a[i] > b[i] THEN 1
  ELSE BigCmp(a, b, i - 1)

\* the limbs from i on of a * k + carry, for k < 2^15
RECURSIVE BigMul(_, _, _, _)
BigMul(a, k, i, carry) ==
  IF i > NLimbs THEN <<>>
  ELSE <<(a[i] * k + carry) % LimbBase>>
       \o BigMul(a, k, i + 1, (a[i] * k + carry) \div LimbBase)

\* the limbs up to i of a \div k, for k < 2^15
RECURSIVE BigDiv(_, _, _, _)
BigDiv(a, k, i, rem) ==
  IF i = 0 THEN <<>>
  ELSE BigDiv(a, k, i - 1, (rem * LimbBase + a[i]) % k)
       \o <<(rem * LimbBase + a[i]) \div k>>

\* a * 2^n
BigShl(a, n) ==
  BigMul([i \in 1..NLimbs |->
            IF i - n \div 15 >= 1 THEN a[i - n \div 15] ELSE 0],
         2 ^ (n % 15), 1, 0)

\* a \div 2^n
BigShr(a, n) ==
  BigDiv([i \in 1..NLimbs |->
            IF i + n \div 15 <= NLimbs THEN a[i + n \div 15] ELSE 0],
         2 ^ (n % 15), NLimbs, 0)

\* the number of bits of a, from limb i down
RECURSIVE BigBitLen(_, _)
BigBitLen(a, i) ==
  IF i = 0 THEN 0
  ELSE IF a[i] # 0 THEN (i - 1) * 15 + Log2Floor(a[i]) + 1
  ELSE BigBitLen(a, i - 1)

\* the Number nearest to (a + s) * 2^e, where s in [0, 1) is zero iff
\* ~sticky
FRound(a, e, sticky) ==
  LET len == BigBitLen(a, NLimbs)
      k == len - 53
      q == BigShr(a, k)
      twice == BigShl(BigSum(a, BigShl(q, k), -1, 1, 0), 1)
      c == BigCmp(twice, BigShl(BigOf(1), k), NLimbs)
      up == c > 0 \/ (c = 0 /\ (sticky \/ q[1] % 2 = 1))
      q1 == IF up THEN BigSum(q, BigOf(1), 1, 1, 0) ELSE q
  IN IF len = 0 THEN [m |-> BigOf(0), e |-> 0]
     ELSE IF k <= 0 THEN [m |-> BigShl(a, -k), e |-> e + k]
     ELSE IF BigBitLen(q1, NLimbs) > 53
          THEN [m |-> BigShr(q1, 1), e |-> e + k + 1]
     ELSE [m |-> q1, e |-> e + k]

\* the Number of the literal n / d, for integers 0 <= n < 2^30 and
\* 0 < d < 2^15
FRatio(n, d) ==
  LET num == BigShl(BigOf(n), 75)
      q == BigDiv(num, d, NLimbs, 0)
  IN FRound(q, -75, BigMul(q, d, 1, 0) # num)

\* Math.abs(x - y); the rounding is symmetric, so the absolute value can be
\* taken before the division and the product
FAbsDiff(x, y) ==
  LET hi == IF x.e >= y.e THEN x ELSE y
      lo == IF x.e >= y.e THEN y ELSE x
      d == hi.e - lo.e
      a == BigShl(hi.m, d)
  IN IF x.m = BigOf(0) THEN y
     ELSE IF y.m = BigOf(0) THEN x
     ELSE IF d > 60 THEN hi
     ELSE IF BigCmp(a, lo.m, NLimbs) >= 0
          THEN FRound(BigSum(a, lo.m, -1, 1, 0), lo.e, FALSE)
     ELSE FRound(BigSum(lo.m, a, -1, 1, 0), lo.e, FALSE)

\* x < y, x = y or x > y as -1, 0, 1, for x, y >= 0
FCmp(x, y) ==
  IF x.m = BigOf(0) /\ y.m = BigOf(0) THEN 0
  ELSE IF x.m = BigOf(0) THEN -1
  ELSE IF y.m = BigOf(0) THEN 1
  ELSE IF x.e < y.e THEN -1
  ELSE IF x.e > y.e THEN 1
  ELSE BigCmp(x.m, y.m, NLimbs)

\* x * k for an integer 0 <= k < 2^15
FMulSmall(x, k) == FRound(BigMul(x.m, k, 1, 0), x.e, FALSE)

\* the next n bits of the quotient r / d for r < d, with the remainder
RECURSIVE BigDivBits(_, _, _, _)
BigDivBits(r, d, q, n) ==
  IF n = 0 THEN [q |-> q, r |-> r]
  ELSE IF BigCmp(BigShl(r, 1), d, NLimbs) >= 0
       THEN BigDivBits(BigSum(BigShl(r, 1), d, -1, 1, 0), d, 2 * q + 1, n - 1)
  ELSE BigDivBits(BigShl(r, 1), d, 2 * q, n - 1)

\* x / y for y # 0: the quotient of the mantissas to 60 binary places
FDiv(x, y) ==
  LET first == IF BigCmp(x.m, y.m, NLimbs) >= 0 THEN 1 ELSE 0
      c1 == BigDivBits(IF first = 1 THEN BigSum(x.m, y.m, -1, 1, 0)
                       ELSE x.m, y.m, 0, 15)
      c2 == BigDivBits(c1.r, y.m, 0, 15)
      c3 == BigDivBits(c2.r, y.m, 0, 15)
      c4 == BigDivBits(c3.r, y.m, 0, 15)
  IN IF x.m = BigOf(0) THEN [m |-> BigOf(0), e |-> 0]
     ELSE FRound(<<c4.q, c3.q, c2.q, c1.q, first, 0, 0, 0>>,
                 x.e - y.e - 60, c4.r # BigOf(0))

\* ------------------------------------------------------------------------
\* The script of the page: cpDiffCell
\* ------------------------------------------------------------------------
MaxTenths == 12

\* the hours of the cells looked at, in tenths: up to MaxTenths tenths, and
\* 10, 11 and 13 hours
CpTenths == (0..MaxTenths) \cup {100, 110, 130}

\* the Number of a JSON literal of one decimal
CpNumber(tenths) == FRatio(tenths, 10)

\* pct
cpPct(j, f) ==
  IF FCmp(f, CpNumber(0)) > 0
  THEN FMulSmall(FDiv(FAbsDiff(j, f), f), 100)
  ELSE IF FCmp(j, CpNumber(0)) > 0 THEN CpNumber(1000) ELSE CpNumber(0)

\* bg
cpBg(pct) ==
  IF FCmp(pct, CpNumber(100)) <= 0 THEN ""
  ELSE IF FCmp(pct, CpNumber(250)) <= 0 THEN "background:#fef3c7;"
  ELSE "background:#fecaca;"

\* the style of the two cells cpDiffCell returns
cpDiffCell(j, f) == cpBg(cpPct(j, f))

\* ------------------------------------------------------------------------
\* Calendar (calendar.monthrange, datetime.date)
\* ------------------------------------------------------------------------
BaseYear == 2023

IsLeap(y) == (y % 4 = 0 /\ y % 100 # 0) \/ y % 400 = 0

DaysInMonth(y, m) ==
  IF m = 2 THEN (IF IsLeap(y) THEN 29 ELSE 28)
  ELSE IF m \in {4, 6, 9, 11} THEN 30 ELSE 31

\* date.fromisoformat accepts the string
ValidDate(dt) == /\ dt[2] \in 1..12
                 /\ dt[3] \in 1..DaysInMonth(dt[1], dt[2])

RECURSIVE DaysBeforeYear(_)
DaysBeforeYear(y) ==
  IF y <= BaseYear THEN 0
  ELSE DaysBeforeYear(y - 1) + (IF IsLeap(y - 1) THEN 366 ELSE 365)

RECURSIVE DaysBeforeMonth(_, _)
DaysBeforeMonth(y, m) ==
  IF m <= 1 THEN 0 ELSE DaysBeforeMonth(y, m - 1) + DaysInMonth(y, m - 1)

\* date.toordinal, counted from the first day of BaseYear
Ordinal(dt) == DaysBeforeYear(dt[1]) + DaysBeforeMonth(dt[1], dt[2]) + dt[3]

MonthOf(dt) == <<dt[1], dt[2]>>

\* comparison of "YYYY-MM" and of "YYYY-MM-DD" strings
MonthLE(a, b) == a[1] < b[1] \/ (a[1] = b[1] /\ a[2] <= b[2])

DateLT(a, b) ==
  \/ a[1] < b[1]
  \/ a[1] = b[1] /\ a[2] < b[2]
  \/ a[1] = b[1] /\ a[2] = b[2] /\ a[3] < b[3]

DateLE(a, b) == a = b \/ DateLT(a, b)

MonthRank(mo) == mo[1] * 12 + mo[2]

\* ------------------------------------------------------------------------
\* DataProcessor._hours_report
\* ------------------------------------------------------------------------
NoDate == <<>>

HrJan == <<2024, 1, 10>>

\* the worklogs handed to the report: author display name, timeSpentSeconds
\* (0 also stands for a missing field), started, _issueKey.  60 s, 120 s and
\* 360 s add up to 0.15 h, a value between two floats.
HrWorklogs ==
  [name : {"Ana"}, seconds : {60, 120, 144, 360}, started : {HrJan},
   key : {<<"ABC", "1">>}]
  \cup [name : {"Ana"}, seconds : {144}, started : {HrJan},
        key : {<<"ABC", "2">>}]
  \cup [name : {"Ana"}, seconds : {3600}, started : {HrJan},
        key : {<<"NOKEY">>}]
  \cup [name : {"Bob"}, seconds : {0, 3600}, started : {HrJan},
        key : {<<"ABC", "1">>}]
  \cup [name : {"Ana"}, seconds : {144}, started : {<<2024, 2, 5>>, NoDate},
        key : {<<"ABC", "1">>}]

\* issue_key.split("-")[0] if "-" in issue_key else "OTHER"
ProjectOf(key) == IF Len(key) > 1 THEN key[1] ELSE "OTHER"

\* the loop of lines 316-328 keeps a worklog
HrKept(wl) == wl.started # NoDate /\ wl.seconds # 0

HrKeptSeq(wls) == SelectSeq(wls, HrKept)

\* tree[name][project][issue_key][month]: += hours, worklog after worklog
HrTreeHours(wls, name, proj, key, mo) ==
  LET hit(wl) == /\ wl.name = name /\ ProjectOf(wl.key) = proj
                 /\ wl.key = key /\ MonthOf(wl.started) = mo
      mine == SelectSeq(HrKeptSeq(wls), hit)
  IN HSum([i \in DOMAIN mine |-> HOf(mine[i].seconds)])

\* the keys of the nested defaultdicts, in insertion order
HrUserKeys(wls) ==
  Distinct([i \in DOMAIN HrKeptSeq(wls) |-> HrKeptSeq(wls)[i].name])

HrProjKeys(wls, name) ==
  LET mine == SelectSeq(HrKeptSeq(wls), LAMBDA wl : wl.name = name)
  IN Distinct([i \in DOMAIN mine |-> ProjectOf(mine[i].key)])

HrIssueKeys(wls, name, proj) ==
  LET mine == SelectSeq(HrKeptSeq(wls),
                LAMBDA wl : wl.name = name /\ ProjectOf(wl.key) = proj)
  IN Distinct([i \in DOMAIN mine |-> mine[i].key])

\* all_months, and months = sorted(all_months)
HrAllMonths(wls) == {MonthOf(wl.started) : wl \in Range(HrKeptSeq(wls))}

HrMonths(wls) ==
  SortByKey(Distinct([i \in DOMAIN HrKeptSeq(wls) |->
                        MonthOf(HrKeptSeq(wls)[i].started)]),
            [mo \in HrAllMonths(wls) |-> MonthRank(mo)])

\* _sum_months and _total of a month_dict h, which holds a float per month
HrSumMonths(months, h) == [mo \in Range(months) |-> HRound1(h[mo])]

HrTotal(months, h) == HRound1(HSum([i \in DOMAIN months |-> h[months[i]]]))

HrIssueNode(wls, name, proj, key) ==
  LET months == HrMonths(wls)
      iss_m == [mo \in Range(months) |-> HrTreeHours(wls, name, proj, key, mo)]
  IN [key |-> key, months |-> HrSumMonths(months, iss_m),
      total |-> HrTotal(months, iss_m)]

\* the floats of the issues of a project, in the order of the loop of line
\* 342
HrProjectHours(wls, name, proj, mo) ==
  LET keys == SortedIssues(HrIssueKeys(wls, name, proj))
  IN [i \in DOMAIN keys |-> HrTreeHours(wls, name, proj, keys[i], mo)]

HrProjectNode(wls, name, proj) ==
  LET months == HrMonths(wls)
      keys == SortedIssues(HrIssueKeys(wls, name, proj))
      proj_months == [mo \in Range(months) |->
                        HSum(HrProjectHours(wls, name, proj, mo))]
      issues == [i \in DOMAIN keys |-> HrIssueNode(wls, name, proj, keys[i])]
  IN [key |-> proj, months |-> HrSumMonths(months, proj_months),
      total |-> HrTotal(months, proj_months),
      issues |-> SortByKey(issues, [x \in Range(issues) |-> -x.total])]

\* the floats added to user_months[mo], project after project
RECURSIVE HrUserHours(_, _, _, _)
HrUserHours(wls, name, pkeys, mo) ==
  IF pkeys = <<>> THEN <<>>
  ELSE HrProjectHours(wls, name, Head(pkeys), mo)
       \o HrUserHours(wls, name, Tail(pkeys), mo)

HrUserRow(wls, name) ==
  LET months == HrMonths(wls)
      pkeys == Sorted(HrProjKeys(wls, name))
      user_months == [mo \in Range(months) |->
                        HSum(HrUserHours(wls, name, pkeys, mo))]
      projects == [i \in DOMAIN pkeys |-> HrProjectNode(wls, name, pkeys[i])]
  IN [user |-> name, months |-> HrSumMonths(months, user_months),
      total |-> HrTotal(months, user_months),
      projects |-> SortByKey(projects, [x \in Range(projects) |-> -x.total])]

\* the dictionary returned by _hours_report
HoursReport(wls) ==
  LET months == HrMonths(wls)
      users == Sorted(HrUserKeys(wls))
      unsorted == [i \in DOMAIN users |-> HrUserRow(wls, users[i])]
      rows == SortByKey(unsorted, [x \in Range(unsorted) |-> -x.total])
  IN [months |-> months,
      rows |-> rows,
      month_totals |->
        [mo \in Range(months) |->
           HRoundSum([i \in DOMAIN rows |-> rows[i].months[mo]])],
      grand_total |-> HRoundSum([i \in DOMAIN rows |-> rows[i].total])]

\* ------------------------------------------------------------------------
\* report_hours.py: the inputs of a run
\* ------------------------------------------------------------------------
MaxEntries == 3

\* the report ranges (--from, --to): one ends in December, one holds the
\* February of a leap year
Ranges ==
  {<<<<2023, 12>>, <<2023, 12>>>>, <<<<2023, 12>>, <<2024, 2>>>>}

\* tracker accounts and their display names; a1 and a2 are two accounts of
\* the same display name, a4 and a5 are in no report group, and the display
\* name of a5 is the one of a3 in capitals
AccountIds == {"a1", "a2", "a3", "a4", "a5"}

DisplayName ==
  [aid \in AccountIds |->
     CASE aid = "a1" -> "Ana"
       [] aid = "a2" -> "Ana"
       [] aid = "a3" -> "Bob"
       [] aid = "a4" -> "Zoe"
       [] aid = "a5" -> "BOB"]

\* the members of the report groups, as fetch_group_members returns them
GroupMembers ==
  [aid \in {"a1", "a2", "a3"} |->
     [displayName |-> DisplayName[aid], groups |-> <<"reportes">>]]

NoMembers == [aid \in {} |-> [displayName |-> "", groups |-> <<>>]]

\* a category value is the sequence of its words and blanks
Words == {"it", "It", "ops", "Ops", "Sin", "Neuro360", "Subcategoria", " "}

\* str.title() of a word
Title ==
  [w \in Words |->
     CASE w = "it" -> "It"
       [] w = "ops" -> "Ops"
       [] OTHER -> w]

\* the fields of the issues: summary, Cliente GLOBAL (customfield_10111),
\* Neuro360 (customfield_10094) and its child; <<>> is a field that is not
\* set
IssueFields ==
  [key \in IssueKeys |->
     CASE key = <<"ABC", "1">> ->
            [summary |-> "s1", cliente_global |-> "Acme",
             neuro360 |-> <<"it", " ", " ", "ops", " ">>,
             neuro360_child |-> <<>>]
       [] key = <<"ABC", "2">> ->
            [summary |-> "s2", cliente_global |-> "",
             neuro360 |-> <<"It", " ", "Ops">>,
             neuro360_child |-> <<"ops">>]
       [] key = <<"NOKEY">> ->
            [summary |-> "s3", cliente_global |-> "",
             neuro360 |-> <<>>, neuro360_child |-> <<>>]]

\* a worklog's "started": local date, local hour and UTC offset in hours
Ts(dt, hour, off) == [date |-> dt, hour |-> hour, off |-> off]

MidTs == Ts(<<2023, 12, 15>>, 10, 0)

BoundaryTs ==
  { Ts(<<2023, 11, 30>>, 23, 0),    \* the hour before 2023-12-01T00:00Z
    Ts(<<2023, 12, 1>>, 0, 0),      \* the first instant of 2023-12
    Ts(<<2024, 1, 1>>, 0, 0),       \* the first instant of 2024-01
    Ts(<<2023, 11, 30>>, 22, -5),   \* 2023-12-01T03:00Z, local date in 11
    Ts(<<2024, 1, 1>>, 1, 2) }      \* 2023-12-31T23:00Z, local date in 01

NoTs == [date |-> NoDate, hour |-> 0, off |-> 0]

\* the worklogs the tracker may return: author account, issue, started,
\* timeSpentSeconds (0 also stands for a missing field)
Worklogs ==
  [aid : {"a1"}, key : {<<"ABC", "1">>}, started : {MidTs},
   seconds : {0, 144}]
  \cup [aid : {"a1"}, key : {<<"ABC", "1">>}, started : BoundaryTs,
        seconds : {3600}]
  \cup [aid : {"a1", "a2", "a3", "a4"}, key : {<<"ABC", "2">>},
        started : {MidTs}, seconds : {144}]
  \cup [aid : {"a3"}, key : {<<"NOKEY">>}, started : {MidTs, NoTs},
        seconds : {216}]

\* ------------------------------------------------------------------------
\* fetch_worklogs
\* ------------------------------------------------------------------------

\* the instant of an aware datetime, in hours
Instant(ts) == Ordinal(ts.date) * 24 + ts.hour - ts.off

\* dt_from: the first instant of the start month, UTC
DtFrom(from) == Ordinal(<<from[1], from[2], 1>>) * 24

\* dt_to: the first instant of the month after the end month, UTC
DtTo(to) ==
  Ordinal(<<to[1] + (IF to[2] = 12 THEN 1 ELSE 0),
            IF to[2] = 12 THEN 1 ELSE to[2] + 1, 1>>) * 24

\* the window test with an end that is taken in
WindowOkClosed(wl, from, to) ==
  ~(Instant(wl.started) < DtFrom(from) \/ Instant(wl.started) > DtTo(to))

\* the window test of line 221 lets the worklog through
WindowOk(wl, from, to) ==
  ~(Instant(wl.started) < DtFrom(from) \/ Instant(wl.started) >= DtTo(to))

\* no allow-list test: every author is let through
AllowOkAll(wl, allowed) == TRUE

\* the allow-list test of line 227 lets the worklog through; an allow-list
\* that is None or empty filters nothing
AllowOk(wl, allowed) == ~(allowed # {} /\ wl.aid \notin allowed)

\* the loop body reaches line 230 for this worklog
Accepted(wl, from, to, allowed) ==
  /\ wl.started # NoTs
  /\ WindowOk(wl, from, to)
  /\ AllowOk(wl, allowed)

\* raw[author_name][month_key][issue_key]: the dictionary as the sequence of
\* its entries in insertion order; entry["hours"] += hours
RawAdd(r, wl) ==
  LET name == DisplayName[wl.aid]
      mk == MonthOf(wl.started.date)
      hit == {i \in DOMAIN r :
                r[i].user = name /\ r[i].month = mk /\ r[i].key = wl.key}
      f == IssueFields[wl.key]
  IN IF hit = {}
     THEN Append(r, [user |-> name, month |-> mk, key |-> wl.key,
                     hours |-> HOf(wl.seconds), summary |-> f.summary,
                     cliente_global |->
                       IF f.cliente_global = "" THEN "Sin cliente"
                       ELSE f.cliente_global,
                     neuro360 |->
                       IF f.neuro360 = <<>> THEN <<"Sin", " ", "Neuro360">>
                       ELSE f.neuro360,
                     neuro360_child |-> f.neuro360_child])
     ELSE [i \in DOMAIN r |->
             IF i \in hit THEN [r[i] EXCEPT !.hours = HAdd(@, HOf(wl.seconds))]
             ELSE r[i]]

\* daily_raw[author_name][day_key] = hours: the entry replaces the day
DailyAddLast(d, wl) ==
  LET name == DisplayName[wl.aid]
      dk == wl.started.date
      hit == {i \in DOMAIN d : d[i].user = name /\ d[i].day = dk}
  IN IF hit = {}
     THEN Append(d, [user |-> name, day |-> dk, hours |-> HOf(wl.seconds)])
     ELSE [i \in DOMAIN d |->
             IF i \in hit THEN [d[i] EXCEPT !.hours = HOf(wl.seconds)]
             ELSE d[i]]

\* daily_raw[author_name][day_key] += hours
DailyAdd(d, wl) ==
  LET name == DisplayName[wl.aid]
      dk == wl.started.date
      hit == {i \in DOMAIN d : d[i].user = name /\ d[i].day = dk}
  IN IF hit = {}
     THEN Append(d, [user |-> name, day |-> dk, hours |-> HOf(wl.seconds)])
     ELSE [i \in DOMAIN d |->
             IF i \in hit THEN [d[i] EXCEPT !.hours = HAdd(@, HOf(wl.seconds))]
             ELSE d[i]]

\* build_months
RECURSIVE BuildMonths(_, _)
BuildMonths(from, to) ==
  IF ~(from[1] < to[1] \/ (from[1] = to[1] /\ from[2] <= to[2])) THEN <<>>
  ELSE <<from>> \o BuildMonths(IF from[2] + 1 > 12 THEN <<from[1] + 1, 1>>
                               ELSE <<from[1], from[2] + 1>>, to)

\* ------------------------------------------------------------------------
\* generate_html: the project tree and the category tree
\* ------------------------------------------------------------------------

\* round(prev + hours, 1), prev in tenths
RoundAdd(prev, hours) == HRound1(HAdd(HTenths(prev), hours))

\* users = sorted(raw.keys())
RawUsers(r) == Sorted(Distinct([i \in DOMAIN r |-> r[i].user]))

\* raw[user].get(m, {}).items() for the months of the report
RawTasks(r, months, user) ==
  SelectSeq(r, LAMBDA e : e.user = user /\ e.month \in Range(months))

\* personal_data[user]: project -> issue_key -> {summary, months}
PersonalProjects(r, months, user) ==
  LET tasks == Range(RawTasks(r, months, user)) IN
  [proj \in {ProjectOf(e.key) : e \in tasks} |->
     [key \in {e.key : e \in {x \in tasks : ProjectOf(x.key) = proj}} |->
        [summary |-> (CHOOSE e \in tasks : e.key = key).summary,
         months |->
           [mo \in {e.month : e \in {x \in tasks : x.key = key}} |->
              RoundAdd(0, (CHOOSE e \in tasks :
                             e.key = key /\ e.month = mo).hours)]]]]

\* personal_data: only the users with a project
PersonalData(r, months) ==
  [user \in {u \in Range(RawUsers(r)) : RawTasks(r, months, u) # <<>>} |->
     PersonalProjects(r, months, user)]

\* _norm: strip, title-case, collapse the blanks; the value is the sequence
\* of the words that " ".join joins
Norm(val, default) ==
  LET v == IF val = <<>> THEN default ELSE val
      ws == SelectSeq(v, LAMBDA w : w # " ")
  IN [i \in DOMAIN ws |-> Title[ws[i]]]

NeuroParent(e) == Norm(e.neuro360, <<"Sin", " ", "Neuro360">>)

NeuroChild(e) == Norm(e.neuro360_child, <<"Sin", " ", "Subcategoria">>)

\* the entries of raw the loops of lines 573-576 visit, in their order
NeuroVisits(r, months) ==
  LET us == RawUsers(r)
      F[i \in 0..Len(us)] ==
        IF i = 0 THEN <<>> ELSE F[i - 1] \o RawTasks(r, months, us[i])
  IN F[Len(us)]

\* neuro_data[parent][child][key]["months"][m] after all the visits
NeuroMonthHours(r, months, key, mo) ==
  LET vs == SelectSeq(NeuroVisits(r, months),
                      LAMBDA e : e.key = key /\ e.month = mo)
      F[i \in 0..Len(vs)] ==
        IF i = 0 THEN 0 ELSE RoundAdd(F[i - 1], vs[i].hours)
  IN F[Len(vs)]

\* neuro_data: parent -> child -> issue_key -> {summary, months, users}
NeuroData(r, months) ==
  LET vs == Range(NeuroVisits(r, months)) IN
  [parent \in {NeuroParent(e) : e \in vs} |->
     [child \in {NeuroChild(e) : e \in {x \in vs : NeuroParent(x) = parent}} |->
        [key \in {e.key : e \in {x \in vs : NeuroParent(x) = parent
                                            /\ NeuroChild(x) = child}} |->
           [summary |-> (CHOOSE e \in vs : e.key = key).summary,
            months |-> [mo \in {e.month : e \in {x \in vs : x.key = key}} |->
                          NeuroMonthHours(r, months, key, mo)],
            users |-> Distinct([i \in DOMAIN SelectSeq(NeuroVisits(r, months),
                                        LAMBDA e : e.key = key) |->
                         SelectSeq(NeuroVisits(r, months),
                                   LAMBDA e : e.key = key)[i].user])]]]]

\* ------------------------------------------------------------------------
\* Identity matching
\* ------------------------------------------------------------------------

\* the e-mail address the tracker holds for an account
EmailOf ==
  [aid \in AccountIds |->
     CASE aid = "a1" -> "ana@x"
       [] aid = "a2" -> "ana2@x"
       [] aid = "a3" -> "bob@x"
       [] aid = "a4" -> "zoe@x"
       [] aid = "a5" -> "bo@x"]

AidRank ==
  [aid \in AccountIds |->
     CASE aid = "a1" -> 1 [] aid = "a2" -> 2 [] aid = "a3" -> 3
       [] aid = "a4" -> 4 [] aid = "a5" -> 5]

\* get_employees_map: email -> employee of the HR directory
FactEmployees ==
  [email \in {"ana@x", "carl@x"} |->
     CASE email = "ana@x" ->
            [id |-> 1, full_name |-> "Ana", start_date |-> <<2023, 1, 2>>,
             terminated_on |-> NoDate]
       [] email = "carl@x" ->
            [id |-> 2, full_name |-> "Carl", start_date |-> <<2023, 1, 2>>,
             terminated_on |-> NoDate]]

\* the elements of a set of accounts, one after the other
RECURSIVE AidSeq(_)
AidSeq(S) ==
  IF S = {} THEN <<>>
  ELSE LET a == CHOOSE x \in S : \A y \in S : AidRank[x] <= AidRank[y]
       IN <<a>> \o AidSeq(S \ {a})

\* fetch_jira_user_emails: the e-mail of every account that has one
FetchJiraUserEmails(account_ids) ==
  LET as == SelectSeq(AidSeq(account_ids), LAMBDA a : EmailOf[a] # "")
  IN [i \in DOMAIN as |-> [aid |-> as[i], email |-> EmailOf[as[i]]]]

\* groups_info.get(aid, {}).get("displayName", aid)
MatchName(gi, aid) ==
  IF aid \in DOMAIN gi THEN gi[aid].displayName ELSE aid

\* build_employee_match: matched and unmatched_jira
BuildEmployeeMatch(jira_emails, fact_employees, gi) ==
  LET M[i \in 0..Len(jira_emails)] ==
        IF i = 0 THEN <<>>
        ELSE IF jira_emails[i].email \in DOMAIN fact_employees
             THEN (MatchName(gi, jira_emails[i].aid) :>
                     [factorial_id |->
                        fact_employees[jira_emails[i].email].id,
                      factorial_name |->
                        fact_employees[jira_emails[i].email].full_name])
                  @@ M[i - 1]
             ELSE M[i - 1]
      un == SelectSeq(jira_emails,
                      LAMBDA je : je.email \notin DOMAIN fact_employees)
  IN [matched |-> M[Len(jira_emails)],
      unmatched_jira |-> [i \in DOMAIN un |-> MatchName(gi, un[i].aid)]]

\* matched, as main computes it (lines 1912-1916)
Matched(gi, fact_employees) ==
  BuildEmployeeMatch(FetchJiraUserEmails(DOMAIN gi), fact_employees,
                     gi).matched

\* ------------------------------------------------------------------------
\* The archival of the employees who left: find_factorial_jira_accounts and
\* the name-based fallback of main
\* ------------------------------------------------------------------------

\* dt_date.today() of the runs looked at
RunDates ==
  { <<2023, 12, 31>>, <<2024, 1, 1>>, <<2024, 1, 31>>, <<2024, 2, 1>>,
    <<2024, 2, 29>>, <<2024, 3, 1>>, <<2024, 4, 30>>, <<2024, 5, 1>>,
    <<2024, 5, 31>>, <<2024, 6, 1>> }

\* the order get_employees_map returns the e-mails in
EmailRank ==
  [email \in {"ana@x", "carl@x", "zoe@x", "rob@x", "bo@x"} |->
     CASE email = "ana@x" -> 1 [] email = "carl@x" -> 2
       [] email = "zoe@x" -> 3 [] email = "rob@x" -> 4
       [] email = "bo@x" -> 5]

\* the HR directories looked at: Ana (account a1, in the report group), Carl
\* (no tracker account), Zoe (account a4, in no report group), BOB of rob@x,
\* whose e-mail no tracker account has and whose name is the one of account
\* a3, and BOB of bo@x (account a5, in no report group); terminated_on is a
\* valid date or missing
Directories ==
  { [email \in DOMAIN EmailRank |->
       CASE email = "ana@x" ->
              [id |-> 1, full_name |-> "Ana", start_date |-> <<2023, 1, 2>>,
               terminated_on |-> ta]
         [] email = "carl@x" ->
              [id |-> 2, full_name |-> "Carl", start_date |-> <<2023, 1, 2>>,
               terminated_on |-> NoDate]
         [] email = "zoe@x" ->
              [id |-> 3, full_name |-> "Zoe", start_date |-> NoDate,
               terminated_on |-> tz]
         [] email = "rob@x" ->
              [id |-> 4, full_name |-> "BOB", start_date |-> <<2023, 1, 2>>,
               terminated_on |-> tb]
         [] email = "bo@x" ->
              [id |-> 5, full_name |-> "BOB", start_date |-> <<2023, 1, 2>>,
               terminated_on |-> to]] :
      ta \in {NoDate, <<2024, 3, 15>>, <<2023, 12, 31>>},
      tz \in {NoDate, <<2023, 11, 30>>, <<2024, 1, 31>>},
      tb \in {NoDate, <<2023, 11, 15>>},
      to \in {NoDate, <<2024, 1, 15>>} }

\* the e-mails of a directory in the order of the dictionary
RECURSIVE EmailSeq(_)
EmailSeq(S) ==
  IF S = {} THEN <<>>
  ELSE LET e == CHOOSE x \in S : \A y \in S : EmailRank[x] <= EmailRank[y]
       IN <<e>> \o EmailSeq(S \ {e})

\* lines 80-88: every active employee, and the terminated ones who overlap
\* the report period
Candidates(fact_employees, from, to) ==
  LET range_start == <<from[1], from[2], 1>>
      range_end == <<to[1], to[2], DaysInMonth(to[1], to[2])>>
      start_date(emp) ==
        IF emp.start_date # NoDate THEN emp.start_date ELSE <<2000, 1, 1>>
      skipped(emp) ==
        /\ emp.terminated_on # NoDate
        /\ \/ DateLT(range_end, start_date(emp))
           \/ DateLT(emp.terminated_on, range_start)
  IN SelectSeq(EmailSeq(DOMAIN fact_employees),
               LAMBDA email : ~skipped(fact_employees[email]))

\* the accounts the user search returns whose emailAddress is the e-mail
SearchUsers(email) ==
  SelectSeq(AidSeq(AccountIds), LAMBDA aid : EmailOf[aid] = email)

\* the first day of the month the archival starts with, without the
\* carry into the next year
ArchiveDateNoCarry(term_dt) ==
  IF term_dt[2] + 2 > 12 THEN <<term_dt[1], term_dt[2] + 2 - 12, 1>>
  ELSE <<term_dt[1], term_dt[2] + 2, 1>>

\* dt_date(archive_y, archive_m, 1) of lines 115-121, 130-136, 1820-1826
ArchiveDate(term_dt) ==
  IF term_dt[2] + 2 > 12 THEN <<term_dt[1] + 1, term_dt[2] + 2 - 12, 1>>
  ELSE <<term_dt[1], term_dt[2] + 2, 1>>

\* is_archived = today >= dt_date(archive_y, archive_m, 1)
is_archived(day, term_date) == DateLE(ArchiveDate(term_date), day)

\* the value stored in archived_users
ArchivedEntry(day, term_date) ==
  [terminated_on |-> term_date, archived |-> is_archived(day, term_date)]

\* archived_users after the turn of the loop of lines 99-155 for an
\* employee whose account is aid
ArchivedAdd(au, aid, emp, day) ==
  IF emp.terminated_on # NoDate
  THEN (DisplayName[aid] :> ArchivedEntry(day, emp.terminated_on)) @@ au
  ELSE au

\* found after that turn: only an account outside existing_ids is added
FoundAdd(fnd, aid, emp, day, existing_ids) ==
  IF aid \in existing_ids THEN fnd
  ELSE (aid :>
          [displayName |-> DisplayName[aid],
           groups |-> IF emp.terminated_on # NoDate THEN <<"Archivados">>
                      ELSE <<"Sin grupo JIRA">>,
           archived |-> IF emp.terminated_on # NoDate
                        THEN is_archived(day, emp.terminated_on) ELSE FALSE,
           terminated_on |-> emp.terminated_on]) @@ fnd

\* the names of main's fallback: _norm drops the accents, lowers the case
\* and collapses the blanks
NameNorm ==
  [n \in {"Ana", "Bob", "Zoe", "Carl", "BOB"} |->
     CASE n = "Ana" -> "ana" [] n = "Bob" -> "bob" [] n = "BOB" -> "bob"
       [] n = "Zoe" -> "zoe" [] n = "Carl" -> "carl"]

\* fact_term_by_name[nn] of lines 1802-1805: the last terminated employee of
\* that normalised name
FactTermByName(fact_employees, nn) ==
  LET es == SelectSeq(EmailSeq(DOMAIN fact_employees),
                      LAMBDA e : /\ fact_employees[e].terminated_on # NoDate
                                 /\ NameNorm[fact_employees[e].full_name] = nn)
  IN IF es = <<>> THEN <<>> ELSE <<fact_employees[es[Len(es)]]>>

\* lines 1807-1832: the members that are not known yet and bear the name of
\* a terminated employee are archived users too
NameFallback(au, gi, fact_employees, day) ==
  LET already_known == {NameNorm[k] : k \in DOMAIN au}
      aids == AidSeq(DOMAIN gi)
      A[i \in 0..Len(aids)] ==
        IF i = 0 THEN au
        ELSE LET dn == gi[aids[i]].displayName
                 emp == FactTermByName(fact_employees, NameNorm[dn])
             IN IF NameNorm[dn] \in already_known \/ emp = <<>>
                THEN A[i - 1]
                ELSE (dn :> ArchivedEntry(day, emp[1].terminated_on))
                     @@ A[i - 1]
  IN A[Len(aids)]

\* ------------------------------------------------------------------------
\* Attendance: FactorialClient.get_attendance_range
\* ------------------------------------------------------------------------

\* mins / 60
HOfMinutes(minutes) == HOf(60 * minutes)

\* d.get(k, 0)
Get0(f, k) == IF k \in DOMAIN f THEN f[k] ELSE HZero

\* d[k] += v of a defaultdict(float)
AddTo(f, k, v) == (k :> HAdd(Get0(f, k), v)) @@ f

NoClock == <<>>

\* map(int, clock.split(":")) gives an hour and a minute; else ValueError,
\* which line 243 catches
ClockParses(clock) == Len(clock) = 2

\* the hours of a record of a work shift, in minutes (lines 224-237)
ShiftMinutes(rec) ==
  IF rec.minutes > 0 THEN rec.minutes
  ELSE rec.clock_out[1] * 60 + rec.clock_out[2]
       - rec.clock_in[1] * 60 - rec.clock_in[2]

\* the minutes the loop body of lines 183-244 adds for a record, 0 when it
\* skips it
AttendanceMinutes(rec, months) ==
  IF rec.employee_id = 0 \/ rec.date = NoDate THEN 0
  ELSE IF MonthOf(rec.date) \notin Range(months) THEN 0
  ELSE IF ~rec.workable
       THEN (IF rec.paid /\ rec.minutes > 0 THEN rec.minutes ELSE 0)
  ELSE IF rec.clock_in = NoClock \/ rec.clock_out = NoClock THEN 0
  ELSE IF rec.minutes <= 0
          /\ ~(ClockParses(rec.clock_in) /\ ClockParses(rec.clock_out))
       THEN 0
  ELSE IF ShiftMinutes(rec) > 0 THEN ShiftMinutes(rec) ELSE 0

\* ------------------------------------------------------------------------
\* build_comparison_data
\* ------------------------------------------------------------------------
DaysOf(mo) == {<<mo[1], mo[2], d>> : d \in 1..DaysInMonth(mo[1], mo[2])}

\* jira_h of a user and a month: the sum over raw[display_name][m]
JiraMonthHours(r, name, mo) ==
  LET es == SelectSeq(r, LAMBDA e : e.user = name /\ e.month = mo)
  IN HSum([i \in DOMAIN es |-> es[i].hours])

\* jira_daily.get(day_str, 0)
JiraDayHours(d, name, day) ==
  LET es == SelectSeq(d, LAMBDA e : e.user = name /\ e.day = day)
  IN HSum([i \in DOMAIN es |-> es[i].hours])

\* person["months"][m]
ComparisonMonth(r, d, name, fid, attendance, daily_factorial, mo) ==
  [jira |-> HRound1(JiraMonthHours(r, name, mo)),
   factorial |-> HRound1(Get0(attendance, <<fid, mo>>)),
   days |->
     [day \in {x \in DaysOf(mo) :
                 \/ HRound1(JiraDayHours(d, name, x)) > 0
                 \/ HRound1(Get0(daily_factorial, <<fid, x>>)) > 0} |->
        [jira |-> HRound1(JiraDayHours(d, name, day)),
         factorial |-> HRound1(Get0(daily_factorial, <<fid, day>>))]]]

\* the dictionary build_comparison_data returns
BuildComparisonData(r, matched, attendance, months, d, daily_factorial) ==
  LET person(name) ==
        [months |->
           [mo \in Range(months) |->
              ComparisonMonth(r, d, name, matched[name].factorial_id,
                              attendance, daily_factorial, mo)]]
      total_j(name) ==
        SumSeq([i \in DOMAIN months |-> person(name).months[months[i]].jira])
      total_f(name) ==
        SumSeq([i \in DOMAIN months |->
                  person(name).months[months[i]].factorial])
  IN [name \in {n \in DOMAIN matched : total_j(n) > 0 \/ total_f(n) > 0} |->
        person(name)]

\* ------------------------------------------------------------------------
\* Leaves: FactorialClient.get_leaves_in_range, build_leaves_data and the
\* grouping of buildLeaves
\* ------------------------------------------------------------------------

\* comparison of two date strings, of which the first may be empty
StrDateLE(a, b) == a = NoDate \/ (b # NoDate /\ DateLE(a, b))

\* the loop body of lines 320-350 keeps the leave under its employee
LeaveKept(lv, from, to) ==
  /\ IF lv.approved # "none" THEN lv.approved = "true"
     ELSE lv.status \in {"approved", "pending"}
  /\ lv.start # NoDate
  /\ StrDateLE(<<from[1], from[2], 1>>, lv.end)
  /\ StrDateLE(lv.start, <<to[1], to[2], DaysInMonth(to[1], to[2])>>)
  /\ lv.employee_id # 0

\* the entry appended to result[emp_id]
LeaveEntry(lv) ==
  [start_date |-> lv.start, end_date |-> lv.end,
   leave_type |-> lv.leave_type,
   status |-> IF lv.approved # "none" THEN "approved" ELSE lv.status]

\* the count of days without the day the leave starts on
LeaveDaysExclusive(start, end) ==
  IF start # NoDate /\ end # NoDate /\ ValidDate(start) /\ ValidDate(end)
  THEN Max(1, Ordinal(end) - Ordinal(start))
  ELSE 1

\* days of an entry (lines 475-481)
LeaveDays(start, end) ==
  IF start # NoDate /\ end # NoDate /\ ValidDate(start) /\ ValidDate(end)
  THEN Max(1, Ordinal(end) - Ordinal(start) + 1)
  ELSE 1

\* the dictionary build_leaves_data returns
BuildLeavesData(matched, leaves) ==
  [name \in {n \in DOMAIN matched :
               /\ matched[n].factorial_id \in DOMAIN leaves
               /\ leaves[matched[n].factorial_id] # <<>>} |->
     LET ls == leaves[matched[name].factorial_id] IN
     [i \in DOMAIN ls |->
        [start_date |-> ls[i].start_date, end_date |-> ls[i].end_date,
         leave_type |-> ls[i].leave_type, status |-> ls[i].status,
         days |-> LeaveDays(ls[i].start_date, ls[i].end_date)]]]

\* buildLeaves: mk, the month a leave is shown under
LeaveMonthKey(e) ==
  IF e.start_date # NoDate THEN MonthOf(e.start_date) ELSE <<0, 0>>

\* buildLeaves: byMonth of a user's entries
LeavesByMonth(entries) ==
  [mk \in {LeaveMonthKey(e) : e \in Range(entries)} |->
     SelectSeq(entries, LAMBDA e : LeaveMonthKey(e) = mk)]

\* buildLeaves: mDays of the month rows
LeavesMonthDays(entries) ==
  [mk \in DOMAIN LeavesByMonth(entries) |->
     SumSeq([i \in DOMAIN LeavesByMonth(entries)[mk] |->
               LeavesByMonth(entries)[mk][i].days])]

\* ------------------------------------------------------------------------
\* The feeds of the attendance and of the leave checks
\* ------------------------------------------------------------------------
MaxAttendance == 2

MaxLeaves == 3

\* the worklogs of the reconciliation check: two days of one month
CompareWorklogs ==
  [aid : {"a1"}, key : {<<"ABC", "1">>},
   started : {MidTs, Ts(<<2023, 12, 16>>, 10, 0)}, seconds : {144, 3600}]
  \cup [aid : {"a3"}, key : {<<"ABC", "2">>}, started : {MidTs},
        seconds : {144}]

Shift(emp, dt, minutes) ==
  [employee_id |-> emp, date |-> dt, workable |-> TRUE, paid |-> FALSE,
   minutes |-> minutes, clock_in |-> <<9, 0>>, clock_out |-> <<17, 0>>]

\* the records of attendance/shifts; employee_id 0 is a missing id
AttRecords ==
  { Shift(1, <<2023, 12, 15>>, 2), Shift(1, <<2023, 12, 15>>, 360),
    Shift(1, <<2023, 12, 16>>, 2),
    Shift(1, <<2024, 2, 29>>, 0),      \* no minutes: 09:00 to 17:00
    Shift(1, <<2024, 3, 1>>, 360),     \* outside the range
    Shift(2, <<2023, 12, 15>>, 360),
    [Shift(1, <<2023, 12, 16>>, 2) EXCEPT !.workable = FALSE, !.paid = TRUE],
    [Shift(1, <<2023, 12, 16>>, 360) EXCEPT !.clock_out = NoClock] }

Leave(emp, start, end) ==
  [employee_id |-> emp, approved |-> "true", status |-> "", start |-> start,
   end |-> end, leave_type |-> "Vacaciones"]

\* the records of timeoff/leaves; <<2024, 2, 30>> and <<2024, 1, 32>> are the
\* malformed dates "2024-02-30" and "2024-01-32"
LeaveFeed ==
  { Leave(1, <<2024, 1, 30>>, <<2024, 2, 2>>),
    Leave(1, <<2024, 2, 28>>, <<2024, 3, 1>>),
    Leave(1, <<2024, 1, 10>>, <<2024, 1, 5>>),     \* ends before it starts
    Leave(1, <<2023, 11, 28>>, <<2023, 12, 2>>),   \* starts before the range
    Leave(1, <<2024, 2, 30>>, <<2024, 3, 1>>),     \* malformed start
    Leave(1, <<2024, 1, 20>>, <<2024, 1, 32>>),    \* malformed end
    Leave(1, <<2024, 2, 10>>, NoDate),             \* no end
    Leave(2, <<2024, 1, 8>>, <<2024, 1, 9>>),      \* nobody's employee
    [Leave(1, <<2024, 1, 8>>, <<2024, 1, 8>>) EXCEPT
       !.approved = "none", !.status = "pending"],
    [Leave(1, <<2024, 1, 9>>, <<2024, 1, 9>>) EXCEPT !.approved = "false"] }

\* ------------------------------------------------------------------------
\* fetch_client_changes and the transition forest of generate_html
\* ------------------------------------------------------------------------

\* the issues whose changelogs one run looks at, at most
MAX_CHANGELOGS == 2000

\* an answer of _search_jql_direct: the issue keys of a 200, or None with
\* the status of a query the tracker rejects
JqlOk(keys) == [ok |-> TRUE, issues |-> keys]

JqlRejected == [ok |-> FALSE, issues |-> <<>>]

\* what the tracker answers to the two 'changed' queries and to the two
\* 'is not EMPTY' queries
JqlAnswers ==
  { [changed |-> <<JqlRejected, JqlRejected>>,
     notempty |-> <<JqlRejected, JqlRejected>>],
    [changed |-> <<JqlOk(<<<<"ABC", "1">>, <<"ABC", "2">>>>), JqlRejected>>,
     notempty |-> <<JqlRejected, JqlRejected>>],
    [changed |-> <<JqlRejected, JqlOk(<<<<"ABC", "1">>>>)>>,
     notempty |-> <<JqlRejected, JqlRejected>>],
    [changed |-> <<JqlOk(<<>>), JqlRejected>>,
     notempty |-> <<JqlOk(<<<<"ABC", "2">>>>), JqlRejected>>],
    [changed |-> <<JqlRejected, JqlRejected>>,
     notempty |-> <<JqlOk(<<>>), JqlOk(<<<<"ABC", "2">>, <<"NOKEY">>>>)>>] }

\* a fromString / toString of a changelog item as the sequence of its
\* parts: the prefix of a cascading select, the name, the id in brackets;
\* <<>> is null
ParentPrefix == "Parent values: "

IdSuffixes == {"(12)", "(7)"}

\* item.get(..) or "Sin cliente", then the two re.sub and strip
CleanClient(val) ==
  IF val = <<>> THEN "Sin cliente"
  ELSE LET a == IF Head(val) = ParentPrefix THEN Tail(val) ELSE val
           b == IF a # <<>> /\ a[Len(a)] \in IdSuffixes
                THEN SubSeq(a, 1, Len(a) - 1) ELSE a
       IN IF b = <<>> THEN "" ELSE b[1]

\* one history of a changelog: created[:10] and the items
History(created, items) == [created |-> created, items |-> items]

ChangeItem(fieldId, field, from, to) ==
  [fieldId |-> fieldId, field |-> field, fromString |-> from,
   toString |-> to]

ChangelogOk(histories) == [ok |-> TRUE, histories |-> histories]

\* get_issue_changelog raises
ChangelogError == [ok |-> FALSE, histories |-> <<>>]

\* what get_issue_changelog gives for the issues
Changelogs ==
  { [key \in IssueKeys |->
       CASE key = <<"ABC", "1">> ->
              ChangelogOk(<<
                History(<<2023, 12, 10>>,
                  <<ChangeItem("customfield_10111", "Cliente GLOBAL",
                               <<ParentPrefix, "Acme", "(12)">>,
                               <<ParentPrefix, "Beta", "(7)">>),
                    ChangeItem("status", "status", <<"Open">>, <<"Done">>)>>),
                History(<<2024, 1, 5>>,
                  <<ChangeItem("", "Cliente GLOBAL", <<"Beta">>,
                               <<"Acme">>)>>)>>)
         [] key = <<"ABC", "2">> ->
              ChangelogOk(<<
                History(<<2023, 12, 20>>,
                  <<ChangeItem("customfield_10111", "", <<>>,
                               <<"Acme">>)>>)>>)
         [] OTHER -> ChangelogError],
    [key \in IssueKeys |->
       CASE key = <<"ABC", "1">> ->
              ChangelogOk(<<
                History(<<2023, 12, 10>>,
                  <<ChangeItem("customfield_10111", "Cliente GLOBAL",
                               <<"Acme">>, <<"Beta">>)>>),
                History(<<2024, 1, 20>>,
                  <<ChangeItem("customfield_10111", "Cliente GLOBAL",
                               <<"Acme", "(12)">>, <<"Beta", "(7)">>)>>)>>)
         [] key = <<"ABC", "2">> ->
              ChangelogOk(<<
                History(<<2024, 1, 2>>,
                  <<ChangeItem("status", "status", <<"Open">>,
                               <<"Done">>)>>)>>)
         [] OTHER ->
              ChangelogOk(<<
                History(<<2024, 2, 1>>,
                  <<ChangeItem("customfield_10111", "Cliente GLOBAL",
                               <<"Acme">>, <<>>)>>)>>)],
    [key \in IssueKeys |-> ChangelogError] }

\* the keys of all the issues of raw
KeysOfWorklogs(r) == {r[i].key : i \in DOMAIN r}

\* keys_with_client of main, lines 1847-1852
KeysWithClient(r) ==
  {r[i].key : i \in {j \in DOMAIN r : r[j].cliente_global # "Sin cliente"}}

\* list(issue_keys_with_client)
RECURSIVE KeyList(_)
KeyList(keys) ==
  IF keys = {} THEN <<>>
  ELSE LET k == CHOOSE x \in keys : \A y \in keys : KeyRank[x] <= KeyRank[y]
       IN <<k>> \o KeyList(keys \ {k})

\* where the issues of lines 288-321 come from
IssueSource(q, keys) ==
  CASE q.changed[1].ok -> "changed1"
    [] q.changed[2].ok -> "changed2"
    [] keys # {} -> "worklogs"
    [] q.notempty[1].ok /\ q.notempty[1].issues # <<>> -> "notempty1"
    [] q.notempty[2].ok /\ q.notempty[2].issues # <<>> -> "notempty2"
    [] OTHER -> "none"

\* issues at line 323; <<>> is also None
CandidateIssues(q, keys) ==
  LET src == IssueSource(q, keys) IN
  CASE src = "changed1" -> q.changed[1].issues
    [] src = "changed2" -> q.changed[2].issues
    [] src = "worklogs" -> KeyList(keys)
    [] src = "notempty1" -> q.notempty[1].issues
    [] src = "notempty2" -> q.notempty[2].issues
    [] OTHER -> <<>>

\* the item of a history is a change of Cliente GLOBAL
IsClientItem(item) ==
  item.fieldId = "customfield_10111" \/ item.field = "Cliente GLOBAL"

\* issue_changes of one issue, lines 337-352
RECURSIVE IssueChanges(_)
IssueChanges(histories) ==
  IF histories = <<>> THEN <<>>
  ELSE LET h == Head(histories)
           its == SelectSeq(h.items, IsClientItem)
       IN [i \in DOMAIN its |->
             [date |-> h.created, from |-> CleanClient(its[i].fromString),
              to |-> CleanClient(its[i].toString)]]
          \o IssueChanges(Tail(histories))

\* fetch_client_changes: issue_key -> the changes of Cliente GLOBAL
FetchClientChanges(q, cl, keys) ==
  LET issues == CandidateIssues(q, keys)
      to_check ==
        SubSeq(issues, 1,
               IF Len(issues) > MAX_CHANGELOGS THEN MAX_CHANGELOGS
               ELSE Len(issues))
  IN [key \in {k \in Range(to_check) :
                 cl[k].ok /\ IssueChanges(cl[k].histories) # <<>>} |->
        IssueChanges(cl[key].histories)]

\* issue_worklogs of generate_html, lines 595-607
IssueWorklogs(r, months, cc) ==
  LET es == {e \in Range(r) :
               e.month \in Range(months) /\ e.key \in DOMAIN cc}
  IN [key \in {e.key : e \in es} |->
        [summary |-> (CHOOSE e \in es : e.key = key).summary,
         months |->
           [mo \in {e.month : e \in {x \in es : x.key = key}} |->
              [user \in {e.user : e \in {x \in es : x.key = key
                                                    /\ x.month = mo}} |->
                 RoundAdd(0, (CHOOSE e \in es :
                                e.key = key /\ e.month = mo
                                /\ e.user = user).hours)]]]]

\* the label of a change: f'{from} -> {to}'
ChangeLabel(change) == <<change.from, change.to>>

\* the labels an issue is filed under: the label of its last change only
ChangeLabelsLast(changes_list) ==
  {ChangeLabel(changes_list[Len(changes_list)])}

\* the labels an issue is filed under: one for each of its changes
ChangeLabels(changes_list) ==
  {ChangeLabel(changes_list[i]) : i \in DOMAIN changes_list}

\* the change_date left for a label: the last change with the label wins
ChangeDate(changes_list, label) ==
  LET is == {i \in DOMAIN changes_list :
               ChangeLabel(changes_list[i]) = label}
  IN changes_list[CHOOSE i \in is : \A j \in is : j <= i].date

\* changes_data: change_label -> issue_key -> {summary, change_date, months}
ChangesData(r, months, cc) ==
  LET iw == IssueWorklogs(r, months, cc)
      keys == DOMAIN cc \cap DOMAIN iw
  IN [label \in UNION {ChangeLabels(cc[k]) : k \in keys} |->
        [key \in {k \in keys : label \in ChangeLabels(cc[k])} |->
           [summary |-> iw[key].summary,
            change_date |-> ChangeDate(cc[key], label),
            months |-> iw[key].months]]]

\* the worklogs of the transition check: two users on ABC-1 in two months,
\* one entry on ABC-2, and one whose local month is before the range
ChangeWorklogs ==
  [aid : {"a1"}, key : {<<"ABC", "1">>},
   started : {MidTs, Ts(<<2024, 1, 10>>, 9, 0)}, seconds : {3600}]
  \cup [aid : {"a3"}, key : {<<"ABC", "1">>, <<"ABC", "2">>},
        started : {MidTs}, seconds : {5400}]
  \cup [aid : {"a1"}, key : {<<"ABC", "1">>},
        started : {Ts(<<2023, 11, 30>>, 22, -5)}, seconds : {1800}]

\* ------------------------------------------------------------------------
\* The requests of one run of main and what becomes of their failures
\* ------------------------------------------------------------------------

\* the request points of a run that answer with a failure, at most
MaxFaults == 1

\* the places of a run that ask the tracker or the HR system
RequestPoints ==
  {"groups", "employees", "user_search", "issues", "jql", "changelog",
   "attendance", "leaves", "holidays", "user_email"}

\* the status the upstream answers with: 200, 401 for credentials that are
\* rejected, 403, and 404 for any other error
Statuses == {200, 401, 403, 404}

\* the answers of a run: every request point answers with one status, at
\* most MaxFaults of them with another status than 200
UpstreamAnswers ==
  {u \in [RequestPoints -> Statuses] :
     Cardinality({p \in RequestPoints : u[p] # 200}) <= MaxFaults}

\* JiraClient._request, lines 18-56: the response, sys.exit(1) or
\* RuntimeError
JiraRequest(status) ==
  IF status = 200 THEN "ok"
  ELSE IF status = 401 \/ status = 403 THEN "exit"
  ELSE "raise"

\* FactorialClient._request, lines 25-58
FactorialRequest(status) ==
  IF status = 200 THEN "ok"
  ELSE IF status = 401 THEN "exit"
  ELSE "raise"

\* _search_jql_direct: the answer of the tracker, None for every status but
\* 200
SearchJqlDirect(status, q) ==
  IF status = 200 THEN q
  ELSE [changed |-> <<JqlRejected, JqlRejected>>,
        notempty |-> <<JqlRejected, JqlRejected>>]

\* find_factorial_jira_accounts, lines 99-155: found and archived_users
\* after the loop; a search that raises is passed over
FindFactorialJiraAccounts(employees, from, to, day, existing_ids, search) ==
  LET cs == Candidates(employees, from, to)
      F[i \in 0..Len(cs)] ==
        IF i = 0 THEN [found |-> <<>>, archived_users |-> <<>>]
        ELSE LET users == SearchUsers(cs[i])
                 emp == employees[cs[i]]
             IN IF search # "ok" \/ users = <<>> THEN F[i - 1]
                ELSE [found |->
                        FoundAdd(F[i - 1].found, users[1], emp, day,
                                 existing_ids),
                      archived_users |->
                        ArchivedAdd(F[i - 1].archived_users, users[1], emp,
                                    day)]
  IN F[Len(cs)]

\* the loop of fetch_worklogs over the worklogs, lines 216-241; a "started"
\* that is no date makes datetime.fromisoformat raise
RECURSIVE FetchWorklogs(_, _, _, _, _)
FetchWorklogs(wls, from, to, allowed, acc) ==
  IF wls = <<>> THEN acc
  ELSE LET wl == Head(wls) IN
       IF wl.started # NoTs /\ ~ValidDate(wl.started.date)
       THEN [acc EXCEPT !.raised = TRUE]
       ELSE FetchWorklogs(Tail(wls), from, to, allowed,
              IF Accepted(wl, from, to, allowed)
              THEN [acc EXCEPT !.raw = RawAdd(@, wl),
                               !.daily_raw = DailyAdd(@, wl),
                               !.total_wl = @ + 1,
                               !.seen = Append(@, wl)]
              ELSE [acc EXCEPT !.seen = Append(@, wl)])

NoWorklogs ==
  [raised |-> FALSE, raw |-> <<>>, daily_raw |-> <<>>, total_wl |-> 0,
   seen |-> <<>>]

\* get_attendance_range over the records, lines 183-244
RECURSIVE GetAttendanceRange(_, _, _)
GetAttendanceRange(recs, months, acc) ==
  IF recs = <<>> THEN acc
  ELSE LET rec == Head(recs)
           mins == AttendanceMinutes(rec, months)
       IN GetAttendanceRange(Tail(recs), months,
            IF mins > 0
            THEN [monthly |->
                    AddTo(acc.monthly, <<rec.employee_id, MonthOf(rec.date)>>,
                          HOfMinutes(mins)),
                  daily |->
                    AddTo(acc.daily, <<rec.employee_id, rec.date>>,
                          HOfMinutes(mins))]
            ELSE acc)

\* get_leaves_in_range over the leaves, lines 320-350
RECURSIVE GetLeavesInRange(_, _, _, _)
GetLeavesInRange(lvs, from, to, acc) ==
  IF lvs = <<>> THEN acc
  ELSE LET lv == Head(lvs) IN
       GetLeavesInRange(Tail(lvs), from, to,
         IF LeaveKept(lv, from, to)
         THEN (lv.employee_id :>
                 Append(IF lv.employee_id \in DOMAIN acc
                        THEN acc[lv.employee_id] ELSE <<>>,
                        LeaveEntry(lv)))
              @@ acc
         ELSE acc)

\* a "started" that is no timestamp
BadTs == [date |-> <<2023, 12, 32>>, hour |-> 10, off |-> 0]

\* a clock value that is no HH:MM
BadClock == <<9>>

RunWorklog(aid, key, started, seconds) ==
  [aid |-> aid, key |-> key, started |-> started, seconds |-> seconds]

\* what the tracker and the HR system hold for a run: the worklogs, the
\* attendance records, the leaves and the holidays
GoodFeed ==
  [worklogs |-> <<RunWorklog("a1", <<"ABC", "1">>, MidTs, 3600),
                  RunWorklog("a3", <<"ABC", "2">>, MidTs, 5400)>>,
   attendance |-> <<Shift(1, <<2023, 12, 15>>, 360)>>,
   leaves |-> <<Leave(1, <<2024, 1, 30>>, <<2024, 2, 2>>)>>,
   holidays |-> <<<<2023, 12, 25>>>>]

\* the feeds with one malformed record before the last record, and the feed
\* whose worklogs are all on an issue without Cliente GLOBAL
RunFeeds ==
  { GoodFeed,
    [GoodFeed EXCEPT !.worklogs = <<@[2]>>],
    [GoodFeed EXCEPT !.worklogs =
       <<@[1], RunWorklog("a1", <<"ABC", "1">>, NoTs, 3600), @[2]>>],
    [GoodFeed EXCEPT !.worklogs =
       <<@[1], RunWorklog("a1", <<"ABC", "1">>, BadTs, 3600), @[2]>>],
    [GoodFeed EXCEPT !.attendance =
       <<[Shift(1, <<2023, 12, 16>>, 0) EXCEPT !.clock_in = BadClock],
         @[1]>>],
    [GoodFeed EXCEPT !.leaves =
       <<Leave(1, <<2024, 2, 30>>, <<2024, 3, 1>>), @[1]>>] }

\* main's comparison_data, leaves_data and all_holidays before the block of
\* lines 1865-1933; <<>> is None
NoFactorial ==
  [comparison_data |-> <<>>, leaves_data |-> <<>>, all_holidays |-> <<>>]

\* ------------------------------------------------------------------------
\* State
\* ------------------------------------------------------------------------
VARIABLES
  hr_worklogs,          \* the worklogs given to _hours_report so far
  hr_report,            \* the report _hours_report returns for them
  date_from,            \* args.date_from
  date_to,              \* args.date_to
  groups_info,          \* accountId -> {displayName, groups}
  allowed_account_ids,  \* the allow-list of fetch_worklogs; {} is None
  worklogs,             \* the worklogs fetch_worklogs has gone through
  raw,                  \* user -> month -> issue_key -> {summary, hours, ..}
  daily_raw,            \* user -> date_str -> hours
  total_wl,             \* the number of worklogs taken into raw
  att_n,                \* the attendance records gone through
  att_monthly,          \* employee_id, month -> minutes
  att_daily,            \* employee_id, date -> minutes
  leaves_n,             \* the leave records gone through
  all_leaves_raw,       \* employee_id -> list of leaves
  today,                \* dt_date.today() of the run
  all_fact_employees,   \* email -> employee of the HR directory
  arch_idx,             \* the candidates find_factorial_jira_accounts searched
  found,                \* accountId -> account found outside the groups
  archived_users,       \* displayName -> {terminated_on, archived}
  arch_done,            \* main is past line 1838
  show_arch,            \* the "Mostrar archivados" boxes of the three views
  cp_j,                 \* the reported hours of a comparison cell, in tenths
  cp_f,                 \* the captured hours of that cell, in tenths
  cp_bg,                \* the style cpDiffCell gave the cell, "none" before
  jql,                  \* what the search endpoint answers to each query
  changelog,            \* issue key -> what get_issue_changelog gives
  client_changes,       \* issue key -> the changes fetch_client_changes kept
  cc_done,              \* main is past line 1858
  pc,                   \* the stage main is at
  upstream,             \* request point -> the status it answers with
  feed,                 \* the records the tracker and the HR system hold
  run_end,              \* "running", "sys.exit(1)", "exception" or "done"
  main_locals,          \* comparison_data, leaves_data, all_holidays
  report_written,       \* generate_html has written the file
  asked,                \* the request points main has asked
  rq_client,            \* the client whose _request is running
  rq_attempt,           \* attempt of the loop of _request
  rq_seen,              \* what session.request gave, attempt by attempt
  rq_wait,              \* the seconds of the last time.sleep
  rq_end,               \* "running", "return", "sys.exit(1)" or the exception
  th_term,              \* a terminated_on the archive threshold is taken of
  th_dates,             \* the dt_date(archive_y, archive_m, 1) of the three places
  jira_emails,          \* accountId, email of fetch_jira_user_emails
  em_matched,           \* matched of build_employee_match
  em_unmatched_jira,    \* unmatched_jira of build_employee_match
  em_done               \* build_employee_match has returned

hoursVars == <<hr_worklogs, hr_report>>

rangeVars == <<date_from, date_to, groups_info, allowed_account_ids>>

fetchVars == <<worklogs, raw, daily_raw, total_wl>>

attVars == <<att_n, att_monthly, att_daily>>

leaveVars == <<leaves_n, all_leaves_raw>>

archVars ==
  <<today, all_fact_employees, arch_idx, found, archived_users, arch_done,
    show_arch>>

cpVars == <<cp_j, cp_f, cp_bg>>

reqVars == <<rq_client, rq_attempt, rq_seen, rq_wait, rq_end>>

thVars == <<th_term, th_dates>>

emVars == <<jira_emails, em_matched, em_unmatched_jira, em_done>>

mainVars ==
  <<pc, upstream, feed, run_end, main_locals, report_written, asked>>

runVars == <<jql, changelog, client_changes, cc_done, mainVars>>

vars ==
  <<hoursVars, rangeVars, fetchVars, attVars, leaveVars, archVars, cpVars,
    runVars, reqVars, thVars, emVars>>

\* months = build_months(args.date_from, args.date_to)
months == BuildMonths(date_from, date_to)

\* what generate_html receives and builds in the current state
matched == Matched(groups_info, all_fact_employees)

personal_data == PersonalData(raw, months)

neuro_data == NeuroData(raw, months)

changes_data == ChangesData(raw, months, client_changes)

comparison_data ==
  BuildComparisonData(raw, matched, att_monthly, months, daily_raw, att_daily)

leaves_data == BuildLeavesData(matched, all_leaves_raw)

\* isArchived(user): !!ARCHIVED[user], ARCHIVED being archived_users
isArchived(user) == user \in DOMAIN archived_users

\* buildPersonal with no group and no client selected and every month
\* visible: uTotal of a user, in tenths
PersonalTotal(user) ==
  LET projs == personal_data[user]
      cells == {<<proj, key, mo>> \in
                  (DOMAIN projs) \X IssueKeys \X Range(months) :
                  /\ key \in DOMAIN projs[proj]
                  /\ mo \in DOMAIN projs[proj][key].months}
  IN SumOver(cells, [c \in cells |-> projs[c[1]][c[2]].months[c[3]]])

\* the users buildPersonal comes to line 1279 with
PersonalRows == {user \in DOMAIN personal_data : PersonalTotal(user) # 0}

\* the users buildPersonal writes a row for
PersonalShown ==
  {user \in PersonalRows : ~(~show_arch.personal /\ isArchived(user))}

\* buildComparison: the users it comes to line 1539 with
ComparisonRows ==
  {user \in DOMAIN comparison_data :
     ~(/\ SumSeq([i \in DOMAIN months |->
                    comparison_data[user].months[months[i]].jira]) = 0
       /\ SumSeq([i \in DOMAIN months |->
                    comparison_data[user].months[months[i]].factorial]) = 0)}

\* the users buildComparison writes a row for
ComparisonShown ==
  {user \in ComparisonRows : ~(~show_arch.comparison /\ isArchived(user))}

\* buildLeaves: every user of LEAVES comes to line 1621
LeavesRows == DOMAIN leaves_data

\* the users buildLeaves writes a row for
LeavesShown ==
  {user \in LeavesRows : ~(~show_arch.leaves /\ isArchived(user))}

\* ------------------------------------------------------------------------
\* Initial conditions
\* ------------------------------------------------------------------------
HoursIdle ==
  /\ hr_worklogs = <<>>
  /\ hr_report = HoursReport(<<>>)

\* main, lines 1757-1766: the allow-list is the set of the group members,
\* None when there is none or with --no-group-filter
RangeStart ==
  /\ \E r \in Ranges : date_from = r[1] /\ date_to = r[2]
  /\ groups_info \in {GroupMembers, NoMembers}
  /\ allowed_account_ids = DOMAIN groups_info

\* a run over 2023-12 .. 2024-02 with the report groups
RangeFixed ==
  /\ date_from = <<2023, 12>> /\ date_to = <<2024, 2>>
  /\ groups_info = GroupMembers
  /\ allowed_account_ids = DOMAIN groups_info

FetchIdle ==
  /\ worklogs = <<>>
  /\ raw = <<>>
  /\ daily_raw = <<>>
  /\ total_wl = 0

AttIdle ==
  /\ att_n = 0
  /\ att_monthly = <<>>
  /\ att_daily = <<>>

LeavesIdle ==
  /\ leaves_n = 0
  /\ all_leaves_raw = <<>>

\* the directory without a terminated employee: the search of main finds
\* no account and no archived user
ArchIdle ==
  /\ today = <<2024, 3, 1>>
  /\ all_fact_employees = FactEmployees
  /\ arch_idx = 0
  /\ found = <<>>
  /\ archived_users = <<>>
  /\ arch_done = TRUE
  /\ show_arch = [personal |-> FALSE, comparison |-> FALSE, leaves |-> FALSE]

\* no comparison cell is drawn
CpIdle == cp_j = 0 /\ cp_f = 0 /\ cp_bg = "none"

\* no archive threshold is looked at
ThIdle == th_term = NoDate /\ th_dates = <<>>

\* build_employee_match is not looked at
EmIdle ==
  /\ jira_emails = <<>>
  /\ em_matched = <<>>
  /\ em_unmatched_jira = <<>>
  /\ em_done = FALSE

\* no call of _request is followed
ReqIdle ==
  /\ rq_client = "none"
  /\ rq_attempt = 0
  /\ rq_seen = <<>>
  /\ rq_wait = 0
  /\ rq_end = "idle"

\* no run of main is followed stage by stage
MainIdle ==
  /\ pc = "idle"
  /\ upstream = [p \in RequestPoints |-> 200]
  /\ feed = GoodFeed
  /\ run_end = "running"
  /\ main_locals = NoFactorial
  /\ report_written = FALSE
  /\ asked = {}

\* the tracker rejects every query and gives no changelog; main has not
\* reached fetch_client_changes
RunIdle ==
  /\ jql = [changed |-> <<JqlRejected, JqlRejected>>,
            notempty |-> <<JqlRejected, JqlRejected>>]
  /\ changelog = [key \in IssueKeys |-> ChangelogError]
  /\ client_changes = <<>>
  /\ cc_done = FALSE
  /\ MainIdle

\* the HR feeds of the main specification: employee 1 clocked six hours on
\* 2023-12-15 and has one leave
AttGiven ==
  /\ att_n = 1
  /\ att_monthly = (<<1, <<2023, 12>>>> :> HOfMinutes(360))
  /\ att_daily = (<<1, <<2023, 12, 15>>>> :> HOfMinutes(360))

LeavesGiven ==
  /\ leaves_n = 1
  /\ all_leaves_raw =
       (1 :> <<[start_date |-> <<2023, 12, 20>>, end_date |-> <<2023, 12, 22>>,
                leave_type |-> "Vacaciones", status |-> "approved"]>>)

\* ------------------------------------------------------------------------
\* The dashboard's hours report: one more worklog arrives, the report is
\* rebuilt from the whole list
\* ------------------------------------------------------------------------
HoursReportRun(wl) ==
  /\ Len(hr_worklogs) < MaxWorklogs
  /\ hr_worklogs' = Append(hr_worklogs, wl)
  /\ hr_report' = HoursReport(hr_worklogs')
  /\ UNCHANGED <<rangeVars, fetchVars, attVars, leaveVars, archVars, cpVars,
                 reqVars, thVars, emVars,
                 runVars>>

HoursInit ==
  HoursIdle /\ RangeFixed /\ FetchIdle /\ AttIdle /\ LeavesIdle /\ ArchIdle
  /\ CpIdle /\ ReqIdle /\ ThIdle /\ EmIdle /\ RunIdle

HoursNext == \E wl \in HrWorklogs : HoursReportRun(wl)

SpecHours == HoursInit /\ [][HoursNext]_vars

\* ------------------------------------------------------------------------
\* report_hours.py: fetch_worklogs goes through one more worklog (one turn
\* of the loop of lines 216-241)
\* ------------------------------------------------------------------------
FetchWorklog(wl) ==
  /\ Len(worklogs) < MaxEntries
  /\ worklogs' = Append(worklogs, wl)
  /\ IF Accepted(wl, date_from, date_to, allowed_account_ids)
     THEN /\ raw' = RawAdd(raw, wl)
          /\ daily_raw' = DailyAdd(daily_raw, wl)
          /\ total_wl' = total_wl + 1
     ELSE UNCHANGED <<raw, daily_raw, total_wl>>
  /\ UNCHANGED <<hoursVars, rangeVars, attVars, leaveVars, archVars, cpVars,
                 reqVars, thVars, emVars,
                 runVars>>

Init ==
  HoursIdle /\ RangeStart /\ FetchIdle /\ AttGiven /\ LeavesGiven /\ ArchIdle
  /\ CpIdle /\ ReqIdle /\ ThIdle /\ EmIdle /\ RunIdle

Next == \E wl \in Worklogs : FetchWorklog(wl)

Spec == Init /\ [][Next]_vars

\* ------------------------------------------------------------------------
\* get_attendance_range goes through one more record (one turn of the loop
\* of lines 183-244)
\* ------------------------------------------------------------------------
AddAttendance(rec) ==
  /\ att_n < MaxAttendance
  /\ att_n' = att_n + 1
  /\ IF AttendanceMinutes(rec, months) > 0
     THEN /\ att_monthly' =
               AddTo(att_monthly, <<rec.employee_id, MonthOf(rec.date)>>,
                     HOfMinutes(AttendanceMinutes(rec, months)))
          /\ att_daily' =
               AddTo(att_daily, <<rec.employee_id, rec.date>>,
                     HOfMinutes(AttendanceMinutes(rec, months)))
     ELSE UNCHANGED <<att_monthly, att_daily>>
  /\ UNCHANGED <<hoursVars, rangeVars, fetchVars, leaveVars, archVars,
                 cpVars, reqVars, thVars, emVars,
                 runVars>>

CompareInit ==
  HoursIdle /\ RangeFixed /\ FetchIdle /\ AttIdle /\ LeavesIdle /\ ArchIdle
  /\ CpIdle /\ ReqIdle /\ ThIdle /\ EmIdle /\ RunIdle

CompareNext ==
  \/ \E wl \in CompareWorklogs : FetchWorklog(wl)
  \/ \E rec \in AttRecords : AddAttendance(rec)

SpecCompare == CompareInit /\ [][CompareNext]_vars

\* ------------------------------------------------------------------------
\* get_leaves_in_range goes through one more leave (one turn of the loop of
\* lines 320-350)
\* ------------------------------------------------------------------------
AddLeave(lv) ==
  /\ leaves_n < MaxLeaves
  /\ leaves_n' = leaves_n + 1
  /\ IF LeaveKept(lv, date_from, date_to)
     THEN all_leaves_raw' =
            (lv.employee_id :>
               Append(IF lv.employee_id \in DOMAIN all_leaves_raw
                      THEN all_leaves_raw[lv.employee_id] ELSE <<>>,
                      LeaveEntry(lv)))
            @@ all_leaves_raw
     ELSE UNCHANGED all_leaves_raw
  /\ UNCHANGED <<hoursVars, rangeVars, fetchVars, attVars, archVars, cpVars,
                 reqVars, thVars, emVars,
                 runVars>>

LeavesInit ==
  HoursIdle /\ RangeFixed /\ FetchIdle /\ AttIdle /\ LeavesIdle /\ ArchIdle
  /\ CpIdle /\ ReqIdle /\ ThIdle /\ EmIdle /\ RunIdle

LeavesNext == \E lv \in LeaveFeed : AddLeave(lv)

SpecLeaves == LeavesInit /\ [][LeavesNext]_vars

\* ------------------------------------------------------------------------
\* main, lines 1768-1838: the search of the HR employees in the tracker,
\* one turn of the loop of find_factorial_jira_accounts at a time, then the
\* rest of the block; after it the worklogs are fetched and the page is
\* built, where the boxes can be ticked
\* ------------------------------------------------------------------------
candidates == Candidates(all_fact_employees, date_from, date_to)

FindFactorialJiraAccount ==
  /\ ~arch_done
  /\ allowed_account_ids # {}
  /\ arch_idx < Len(candidates)
  /\ arch_idx' = arch_idx + 1
  /\ LET email == candidates[arch_idx + 1]
         emp == all_fact_employees[email]
         users == SearchUsers(email)
     IN IF users = <<>>
        THEN UNCHANGED <<found, archived_users>>
        ELSE /\ found' = FoundAdd(found, users[1], emp, today,
                                  allowed_account_ids)
             /\ archived_users' =
                  ArchivedAdd(archived_users, users[1], emp, today)
  /\ UNCHANGED <<hoursVars, rangeVars, fetchVars, attVars, leaveVars, today,
                 all_fact_employees, arch_done, show_arch, cpVars, reqVars,
                 thVars, emVars, runVars>>

\* lines 1788-1834: the accounts found join the groups and the allow-list,
\* then the fallback by name
ArchiveByName ==
  /\ ~arch_done
  /\ allowed_account_ids # {}
  /\ arch_idx = Len(candidates)
  /\ groups_info' = found @@ groups_info
  /\ allowed_account_ids' = allowed_account_ids \cup DOMAIN found
  /\ archived_users' =
       NameFallback(archived_users, groups_info', all_fact_employees, today)
  /\ arch_done' = TRUE
  /\ UNCHANGED <<hoursVars, date_from, date_to, fetchVars, attVars,
                 leaveVars, today, all_fact_employees, arch_idx, found,
                 show_arch, cpVars, reqVars, thVars, emVars, runVars>>

\* the worklogs of the archival runs: an hour of Ana, of Bob and of Zoe
ArchWorklogs ==
  [aid : {"a1", "a3", "a4"}, key : {<<"ABC", "1">>}, started : {MidTs},
   seconds : {3600}]

\* fetch_worklogs runs after the block
FetchAfterArchive(wl) == arch_done /\ FetchWorklog(wl)

\* a "Mostrar archivados" box is ticked or unticked, the view is rebuilt
ToggleShowArchived(view) ==
  /\ arch_done
  /\ show_arch' = [show_arch EXCEPT ![view] = ~@]
  /\ UNCHANGED <<hoursVars, rangeVars, fetchVars, attVars, leaveVars, today,
                 all_fact_employees, arch_idx, found, archived_users,
                 arch_done, cpVars, reqVars, thVars, emVars, runVars>>

ArchiveInit ==
  /\ HoursIdle /\ RangeFixed /\ FetchIdle /\ AttGiven /\ LeavesGiven
  /\ today \in RunDates
  /\ all_fact_employees \in Directories
  /\ arch_idx = 0
  /\ found = <<>>
  /\ archived_users = <<>>
  /\ arch_done = FALSE
  /\ show_arch = [personal |-> FALSE, comparison |-> FALSE, leaves |-> FALSE]
  /\ CpIdle /\ ReqIdle /\ ThIdle /\ EmIdle /\ RunIdle

ArchiveNext ==
  \/ FindFactorialJiraAccount
  \/ ArchiveByName
  \/ \E wl \in ArchWorklogs : FetchAfterArchive(wl)
  \/ \E view \in {"personal", "comparison", "leaves"} :
       ToggleShowArchived(view)

SpecArchive == ArchiveInit /\ [][ArchiveNext]_vars

\* ------------------------------------------------------------------------
\* buildComparison draws the two variance cells of a row: cpDiffCell(j, f)
\* for the hours of a month or a day
\* ------------------------------------------------------------------------
CpDiffCellCall ==
  /\ cp_bg = "none"
  /\ cp_bg' = cpDiffCell(CpNumber(cp_j), CpNumber(cp_f))
  /\ UNCHANGED <<hoursVars, rangeVars, fetchVars, attVars, leaveVars,
                 archVars, cp_j, cp_f, runVars, reqVars, thVars, emVars>>

VarianceInit ==
  /\ HoursIdle /\ RangeFixed /\ FetchIdle /\ AttIdle /\ LeavesIdle /\ ArchIdle
  /\ cp_j \in CpTenths
  /\ cp_f \in CpTenths
  /\ cp_bg = "none"
  /\ RunIdle /\ ReqIdle /\ ThIdle /\ EmIdle

VarianceNext == CpDiffCellCall

SpecVariance == VarianceInit /\ [][VarianceNext]_vars

\* ------------------------------------------------------------------------
\* main, lines 1841-1858: the worklogs are fetched, then
\* fetch_client_changes runs once over the issues the tracker names
\* ------------------------------------------------------------------------
\* fetch_worklogs, before line 1847
FetchBeforeChanges(wl) == ~cc_done /\ FetchWorklog(wl)

FetchClientChangesRun ==
  /\ ~cc_done
  /\ client_changes' = FetchClientChanges(jql, changelog, KeysWithClient(raw))
  /\ cc_done' = TRUE
  /\ UNCHANGED <<hoursVars, rangeVars, fetchVars, attVars, leaveVars,
                 archVars, cpVars, reqVars, thVars, emVars, jql, changelog,
                 mainVars>>

ChangesInit ==
  /\ HoursIdle /\ RangeFixed /\ FetchIdle /\ AttIdle /\ LeavesIdle /\ ArchIdle
  /\ CpIdle /\ ReqIdle /\ ThIdle /\ EmIdle
  /\ jql \in JqlAnswers
  /\ changelog \in Changelogs
  /\ client_changes = <<>>
  /\ cc_done = FALSE
  /\ MainIdle

ChangesNext ==
  \/ \E wl \in ChangeWorklogs : FetchBeforeChanges(wl)
  \/ FetchClientChangesRun

SpecChanges == ChangesInit /\ [][ChangesNext]_vars

\* ------------------------------------------------------------------------
\* main of report_hours.py, stage by stage: every stage makes its requests,
\* ends the run where a failure is fatal and goes on where it is caught
\* ------------------------------------------------------------------------

\* how a request that does not answer ends the run when nothing catches it
RunEnd(outcome) == IF outcome = "exit" THEN "sys.exit(1)" ELSE "exception"

\* the first outcome of a sequence of requests that is not "ok"
RECURSIVE FirstFailure(_)
FirstFailure(outcomes) ==
  IF outcomes = <<>> THEN "ok"
  ELSE IF Head(outcomes) # "ok" THEN Head(outcomes)
  ELSE FirstFailure(Tail(outcomes))

\* the requests of a sequence that are made: all up to the first that is
\* not "ok"
RECURSIVE Made(_, _)
Made(points, outcomes) ==
  IF points = <<>> THEN {}
  ELSE IF Head(outcomes) # "ok" THEN {Head(points)}
  ELSE {Head(points)} \cup Made(Tail(points), Tail(outcomes))

\* lines 1757-1766: fetch_group_members
MainGroups ==
  /\ pc = "groups"
  /\ asked' = asked \cup {"groups"}
  /\ LET r == JiraRequest(upstream["groups"]) IN
     IF r = "ok"
     THEN /\ groups_info' = GroupMembers
          /\ allowed_account_ids' = DOMAIN GroupMembers
          /\ pc' = "employees"
          /\ UNCHANGED run_end
     ELSE /\ pc' = "end"
          /\ run_end' = RunEnd(r)
          /\ UNCHANGED <<groups_info, allowed_account_ids>>
  /\ UNCHANGED <<hoursVars, date_from, date_to, fetchVars, attVars,
                 leaveVars, archVars, cpVars, reqVars, thVars, emVars, jql,
                 changelog,
                 client_changes, cc_done, upstream, feed, main_locals,
                 report_written>>

\* lines 1768-1838: the directory of the HR system, the search of the
\* accounts of its employees and the fallback by name, in one try
MainEmployees ==
  /\ pc = "employees"
  /\ LET e == FactorialRequest(upstream["employees"])
         s == JiraRequest(upstream["user_search"])
         cs == Candidates(FactEmployees, date_from, date_to)
         res == FindFactorialJiraAccounts(FactEmployees, date_from, date_to,
                                          today, allowed_account_ids, s)
     IN IF e = "exit" \/ (e = "ok" /\ cs # <<>> /\ s = "exit")
        THEN /\ pc' = "end"
             /\ run_end' = "sys.exit(1)"
             /\ asked' = asked \cup {"employees"}
                           \cup (IF e = "ok" THEN {"user_search"} ELSE {})
             /\ UNCHANGED <<groups_info, allowed_account_ids,
                            all_fact_employees, arch_idx, found,
                            archived_users, arch_done>>
        ELSE IF e = "raise"
        THEN /\ pc' = "worklogs"
             /\ asked' = asked \cup {"employees"}
             /\ arch_done' = TRUE
             /\ UNCHANGED <<groups_info, allowed_account_ids,
                            all_fact_employees, arch_idx, found,
                            archived_users, run_end>>
        ELSE /\ pc' = "worklogs"
             /\ asked' = asked \cup {"employees"}
                           \cup (IF cs # <<>> THEN {"user_search"} ELSE {})
             /\ all_fact_employees' = FactEmployees
             /\ arch_idx' = Len(cs)
             /\ found' = res.found
             /\ groups_info' = res.found @@ groups_info
             /\ allowed_account_ids' =
                  allowed_account_ids \cup DOMAIN res.found
             /\ archived_users' =
                  NameFallback(res.archived_users, groups_info',
                               FactEmployees, today)
             /\ arch_done' = TRUE
             /\ UNCHANGED run_end
  /\ UNCHANGED <<hoursVars, date_from, date_to, fetchVars, attVars,
                 leaveVars, today, show_arch, cpVars, reqVars, thVars,
                 emVars, jql, changelog,
                 client_changes, cc_done, upstream, feed, main_locals,
                 report_written>>

\* line 1841: fetch_worklogs
MainWorklogs ==
  /\ pc = "worklogs"
  /\ asked' = asked \cup {"issues"}
  /\ LET r == JiraRequest(upstream["issues"])
         res == FetchWorklogs(feed.worklogs, date_from, date_to,
                              allowed_account_ids, NoWorklogs)
     IN IF r # "ok" \/ res.raised
        THEN /\ pc' = "end"
             /\ run_end' = IF r # "ok" THEN RunEnd(r) ELSE "exception"
             /\ UNCHANGED fetchVars
        ELSE /\ pc' = "changes"
             /\ worklogs' = res.seen
             /\ raw' = res.raw
             /\ daily_raw' = res.daily_raw
             /\ total_wl' = res.total_wl
             /\ UNCHANGED run_end
  /\ UNCHANGED <<hoursVars, rangeVars, attVars, leaveVars, archVars, cpVars,
                 reqVars, thVars, emVars,
                 jql, changelog, client_changes, cc_done, upstream, feed,
                 main_locals, report_written>>

\* lines 1846-1858: fetch_client_changes
MainChanges ==
  /\ pc = "changes"
  /\ LET q == SearchJqlDirect(upstream["jql"], jql)
         keys == KeysWithClient(raw)
         r == JiraRequest(upstream["changelog"])
         looked == CandidateIssues(q, keys) # <<>>
     IN /\ asked' = asked \cup {"jql"}
                      \cup (IF looked THEN {"changelog"} ELSE {})
        /\ IF looked /\ r = "exit"
           THEN /\ pc' = "end"
                /\ run_end' = "sys.exit(1)"
                /\ UNCHANGED <<client_changes, cc_done>>
           ELSE /\ pc' = "factorial"
                /\ client_changes' =
                     FetchClientChanges(
                       q,
                       IF r = "ok" THEN changelog
                       ELSE [key \in IssueKeys |-> ChangelogError],
                       keys)
                /\ cc_done' = TRUE
                /\ UNCHANGED run_end
  /\ UNCHANGED <<hoursVars, rangeVars, fetchVars, attVars, leaveVars,
                 archVars, cpVars, reqVars, thVars, emVars, jql, changelog,
                 upstream, feed,
                 main_locals, report_written>>

\* lines 1860-1933: the attendance, the leaves and the holidays of the HR
\* system, the e-mails of the accounts, and the two components built of
\* them, in one try
MainFactorial ==
  /\ pc = "factorial"
  /\ LET again == all_fact_employees = <<>>
         points == (IF again THEN <<"employees">> ELSE <<>>)
                     \o <<"attendance", "leaves">>
         outcomes == [i \in DOMAIN points |->
                        FactorialRequest(upstream[points[i]])]
         first == FirstFailure(outcomes)
         h == FactorialRequest(upstream["holidays"])
         m == JiraRequest(upstream["user_email"])
         att == GetAttendanceRange(feed.attendance, months,
                                   [monthly |-> <<>>, daily |-> <<>>])
         lvs == GetLeavesInRange(feed.leaves, date_from, date_to, <<>>)
         fe == IF again THEN FactEmployees ELSE all_fact_employees
         mt == IF m = "ok" THEN Matched(groups_info, fe) ELSE <<>>
     IN IF first # "ok"
        THEN /\ asked' = asked \cup Made(points, outcomes)
             /\ IF first = "exit"
                THEN pc' = "end" /\ run_end' = "sys.exit(1)"
                ELSE pc' = "write" /\ UNCHANGED run_end
             /\ all_fact_employees' =
                  IF again /\ outcomes[1] = "ok" THEN FactEmployees
                  ELSE all_fact_employees
             /\ UNCHANGED <<attVars, leaveVars, main_locals>>
        ELSE /\ asked' = asked \cup Range(points) \cup {"holidays"}
                           \cup (IF h # "exit" /\ groups_info # <<>>
                                 THEN {"user_email"} ELSE {})
             /\ all_fact_employees' = fe
             /\ att_n' = Len(feed.attendance)
             /\ att_monthly' = att.monthly
             /\ att_daily' = att.daily
             /\ leaves_n' = Len(feed.leaves)
             /\ all_leaves_raw' = lvs
             /\ IF h = "exit" \/ (groups_info # <<>> /\ m = "exit")
                THEN /\ pc' = "end"
                     /\ run_end' = "sys.exit(1)"
                     /\ UNCHANGED main_locals
                ELSE /\ pc' = "write"
                     /\ main_locals' =
                          [comparison_data |->
                             <<BuildComparisonData(raw, mt, att.monthly,
                                                   months, daily_raw,
                                                   att.daily)>>,
                           leaves_data |-> <<BuildLeavesData(mt, lvs)>>,
                           all_holidays |->
                             IF h = "ok" THEN feed.holidays ELSE <<>>]
                     /\ UNCHANGED run_end
  /\ UNCHANGED <<hoursVars, rangeVars, fetchVars, today, arch_idx, found,
                 archived_users, arch_done, show_arch, cpVars, reqVars,
                 thVars, emVars, jql,
                 changelog, client_changes, cc_done, upstream, feed,
                 report_written>>

\* lines 1935-1949: generate_html writes the report
MainWrite ==
  /\ pc = "write"
  /\ pc' = "end"
  /\ run_end' = "done"
  /\ report_written' = TRUE
  /\ UNCHANGED <<hoursVars, rangeVars, fetchVars, attVars, leaveVars,
                 archVars, cpVars, reqVars, thVars, emVars, jql, changelog,
                 client_changes, cc_done,
                 upstream, feed, main_locals, asked>>

RunInit ==
  /\ HoursIdle /\ FetchIdle /\ AttIdle /\ LeavesIdle /\ CpIdle /\ ReqIdle /\ ThIdle /\ EmIdle
  /\ date_from = <<2023, 12>> /\ date_to = <<2024, 2>>
  /\ groups_info = NoMembers
  /\ allowed_account_ids = {}
  /\ today = <<2024, 3, 1>>
  /\ all_fact_employees = <<>>
  /\ arch_idx = 0
  /\ found = <<>>
  /\ archived_users = <<>>
  /\ arch_done = FALSE
  /\ show_arch = [personal |-> FALSE, comparison |-> FALSE, leaves |-> FALSE]
  /\ jql = [changed |-> <<JqlOk(<<<<"ABC", "1">>, <<"ABC", "2">>>>),
                          JqlRejected>>,
            notempty |-> <<JqlRejected, JqlRejected>>]
  /\ changelog \in {cl \in Changelogs :
                      cl[<<"ABC", "2">>].ok /\ ~cl[<<"NOKEY">>].ok}
  /\ client_changes = <<>>
  /\ cc_done = FALSE
  /\ pc = "groups"
  /\ upstream \in UpstreamAnswers
  /\ feed \in RunFeeds
  /\ run_end = "running"
  /\ main_locals = NoFactorial
  /\ report_written = FALSE
  /\ asked = {}

RunNext ==
  \/ MainGroups
  \/ MainEmployees
  \/ MainWorklogs
  \/ MainChanges
  \/ MainFactorial
  \/ MainWrite

SpecRun == RunInit /\ [][RunNext]_vars

\* ------------------------------------------------------------------------
\* Claims about DataProcessor._hours_report
\* ------------------------------------------------------------------------

\* C1: in the tree returned by _hours_report, for every node and every month
\* present, the stored value of the node is the exact sum of the stored
\* values of its children: a user row is the sum of its projects, a project
\* the sum of its issues, month_totals[M] the sum of the user rows.
C1_TreeSum ==
  LET rep == hr_report IN
  \A mo \in Range(rep.months) :
    /\ rep.month_totals[mo] =
         SumSeq([i \in DOMAIN rep.rows |-> rep.rows[i].months[mo]])
    /\ \A i \in DOMAIN rep.rows :
         LET row == rep.rows[i] IN
         /\ row.months[mo] =
              SumSeq([j \in DOMAIN row.projects |->
                        row.projects[j].months[mo]])
         /\ \A j \in DOMAIN row.projects :
              LET prj == row.projects[j] IN
              prj.months[mo] =
                SumSeq([k \in DOMAIN prj.issues |->
                          prj.issues[k].months[mo]])

\* ------------------------------------------------------------------------
\* Claims about the reconciliation structure and the rollups of
\* report_hours.py
\* ------------------------------------------------------------------------

\* buildComparison: uJ and uF of a user over the visible months vm
CpUserTotals(p, vm) ==
  [jira |-> SumSeq([i \in DOMAIN vm |->
              IF vm[i] \in DOMAIN p.months THEN p.months[vm[i]].jira ELSE 0]),
   factorial |-> SumSeq([i \in DOMAIN vm |->
              IF vm[i] \in DOMAIN p.months THEN p.months[vm[i]].factorial
              ELSE 0])]

\* C5: in the structure built by build_comparison_data, for every employee
\* and every month the reported total is the sum of the reported values of
\* the retained day records and the captured total the sum of their captured
\* values; the employee totals are the sums of the month totals.
C5_TotalsAreSums ==
  \A name \in DOMAIN comparison_data :
    LET p == comparison_data[name] IN
    /\ \A mo \in DOMAIN p.months :
         LET md == p.months[mo] IN
         /\ md.jira = SumOver(DOMAIN md.days, [d \in DOMAIN md.days |->
                                                 md.days[d].jira])
         /\ md.factorial = SumOver(DOMAIN md.days, [d \in DOMAIN md.days |->
                                                      md.days[d].factorial])
    /\ CpUserTotals(p, months).jira =
         SumOver(DOMAIN p.months, [mo \in DOMAIN p.months |->
                                     p.months[mo].jira])
    /\ CpUserTotals(p, months).factorial =
         SumOver(DOMAIN p.months, [mo \in DOMAIN p.months |->
                                     p.months[mo].factorial])

\* the worklogs of the feed that are in scope, whatever their timestamp: they
\* have a "started" and their author passes the allow-list
InScope(wl) == wl.started # NoTs /\ AllowOk(wl, allowed_account_ids)

\* the half-open window [range_start, range_end) of the report: from the
\* first instant of the start month to the instant that follows the last day
\* of the end month
InWindow(wl) ==
  /\ Ordinal(<<date_from[1], date_from[2], 1>>) * 24 <= Instant(wl.started)
  /\ Instant(wl.started) <
       (Ordinal(<<date_to[1], date_to[2],
                  DaysInMonth(date_to[1], date_to[2])>>) + 1) * 24

\* the time entries of the feed that are in scope and in range
InRangeEntries ==
  {i \in DOMAIN worklogs : InScope(worklogs[i]) /\ InWindow(worklogs[i])}

\* the entry is in the project tree, under its author, project, key and month
InProjectTree(wl) ==
  LET name == DisplayName[wl.aid]
      proj == ProjectOf(wl.key)
  IN /\ name \in DOMAIN personal_data
     /\ proj \in DOMAIN personal_data[name]
     /\ wl.key \in DOMAIN personal_data[name][proj]
     /\ MonthOf(wl.started.date)
          \in DOMAIN personal_data[name][proj][wl.key].months

\* the entry is in the category tree, under the categories of its issue
InCategoryTree(wl) ==
  \E parent \in DOMAIN neuro_data :
    \E child \in DOMAIN neuro_data[parent] :
      /\ wl.key \in DOMAIN neuro_data[parent][child]
      /\ MonthOf(wl.started.date)
           \in DOMAIN neuro_data[parent][child][wl.key].months
      /\ DisplayName[wl.aid] \in Range(neuro_data[parent][child][wl.key].users)

\* C7: a tracker user whose email matches no HR employee has no entry in the
\* reconciliation structure and none in the leave overlay, yet every one of
\* that user's in-range time entries is in the project rollup and in the
\* category rollup.
C7_UnmatchedIdentity ==
  \A i \in InRangeEntries :
    LET wl == worklogs[i] IN
    EmailOf[wl.aid] \notin DOMAIN FactEmployees =>
      /\ DisplayName[wl.aid] \notin DOMAIN comparison_data
      /\ DisplayName[wl.aid] \notin DOMAIN leaves_data
      /\ InProjectTree(wl)
      /\ InCategoryTree(wl)

\* C8: a time entry whose duration is zero or missing is dropped before
\* insertion: every author, month and work-item node of the rollups comes
\* from an entry with a duration, in fetch_worklogs and in _hours_report
\* alike.
C8_ZeroDurationDropped ==
  /\ \A i \in DOMAIN raw :
       \E j \in DOMAIN worklogs :
         /\ worklogs[j].seconds > 0
         /\ worklogs[j].started # NoTs
         /\ DisplayName[worklogs[j].aid] = raw[i].user
         /\ MonthOf(worklogs[j].started.date) = raw[i].month
         /\ worklogs[j].key = raw[i].key
  /\ \A name \in DOMAIN personal_data :
       \A proj \in DOMAIN personal_data[name] :
         \A key \in DOMAIN personal_data[name][proj] :
           \E j \in DOMAIN worklogs :
             /\ worklogs[j].seconds > 0
             /\ DisplayName[worklogs[j].aid] = name
             /\ worklogs[j].key = key
  /\ \A i \in DOMAIN hr_report.rows :
       \A j \in DOMAIN hr_report.rows[i].projects :
         \A k \in DOMAIN hr_report.rows[i].projects[j].issues :
           \E n \in DOMAIN hr_worklogs :
             /\ hr_worklogs[n].seconds > 0
             /\ hr_worklogs[n].name = hr_report.rows[i].user
             /\ hr_worklogs[n].key =
                  hr_report.rows[i].projects[j].issues[k].key

\* the seconds of the entries R of one author, month and issue
EntrySeconds(R, name, mo, key) ==
  LET S == {i \in R :
              /\ DisplayName[worklogs[i].aid] = name
              /\ MonthOf(worklogs[i].started.date) = mo
              /\ worklogs[i].key = key}
  IN SumOver(S, [i \in S |-> worklogs[i].seconds])

\* the seconds of the entries R of one author and day
EntryDaySeconds(R, name, day) ==
  LET S == {i \in R :
              /\ DisplayName[worklogs[i].aid] = name
              /\ worklogs[i].started.date = day}
  IN SumOver(S, [i \in S |-> worklogs[i].seconds])

\* C9: fetch_worklogs takes a time entry of an author in scope into the
\* rollup and into the daily sums if and only if its timestamp t satisfies
\* range_start <= t < range_end: the entries taken are exactly the in-range
\* ones, every node of raw and of daily_raw holds the hours of the in-range
\* entries of its key (the float of their seconds) and of no other.
C9_HalfOpenWindow ==
  LET R == InRangeEntries IN
  /\ total_wl = Cardinality(R)
  /\ \A i \in R :
       /\ \E j \in DOMAIN raw :
            /\ raw[j].user = DisplayName[worklogs[i].aid]
            /\ raw[j].month = MonthOf(worklogs[i].started.date)
            /\ raw[j].key = worklogs[i].key
       /\ \E j \in DOMAIN daily_raw :
            /\ daily_raw[j].user = DisplayName[worklogs[i].aid]
            /\ daily_raw[j].day = worklogs[i].started.date
  /\ \A j \in DOMAIN raw :
       /\ raw[j].hours.s =
            EntrySeconds(R, raw[j].user, raw[j].month, raw[j].key)
       /\ \E i \in R :
            /\ raw[j].user = DisplayName[worklogs[i].aid]
            /\ raw[j].month = MonthOf(worklogs[i].started.date)
            /\ raw[j].key = worklogs[i].key
  /\ \A j \in DOMAIN daily_raw :
       /\ daily_raw[j].hours.s =
            EntryDaySeconds(R, daily_raw[j].user, daily_raw[j].day)
       /\ \E i \in R :
            /\ daily_raw[j].user = DisplayName[worklogs[i].aid]
            /\ daily_raw[j].day = worklogs[i].started.date

\* C9, witness: the report ends in December; of two entries gone through,
\* the one at the first instant of the start month is in raw and the one at
\* the first instant of the following January is not
C9_Witness ==
  /\ date_to = <<2023, 12>>
  /\ Len(worklogs) = 2
  /\ InScope(worklogs[1]) /\ InScope(worklogs[2])
  /\ worklogs[1].started = Ts(<<2023, 12, 1>>, 0, 0)
  /\ worklogs[2].started = Ts(<<2024, 1, 1>>, 0, 0)
  /\ total_wl = 1
  /\ Len(raw) = 1 /\ raw[1].month = <<2023, 12>> /\ raw[1].hours = HOf(3600)
  /\ Len(daily_raw) = 1 /\ daily_raw[1].day = <<2023, 12, 1>>

\* ------------------------------------------------------------------------
\* Claims about the leave overlay
\* ------------------------------------------------------------------------

\* the days of the calendar of the years the feeds lie in
CalendarDays ==
  {dt \in (BaseYear..(BaseYear + 1)) \X (1..12) \X (1..31) : ValidDate(dt)}

\* both dates of the entry are dates of the calendar
LeaveHasValidDates(e) ==
  /\ e.start_date # NoDate /\ e.end_date # NoDate
  /\ ValidDate(e.start_date) /\ ValidDate(e.end_date)

\* the number of calendar days from start to end, both taken in
LeaveSpan(e) ==
  Cardinality({dt \in CalendarDays :
                 DateLE(e.start_date, dt) /\ DateLE(dt, e.end_date)})

\* C6: for every leave with valid dates, days is the number of calendar days
\* from start_date to end_date, both included, and 1 when end precedes
\* start; the leave is grouped under the month of its start date and under
\* no other, and the days of a month row are the days of the leaves that
\* start in it, whole.
C6_LeaveDaysAndMonth ==
  \A name \in DOMAIN leaves_data :
    LET entries == leaves_data[name]
        byMonth == LeavesByMonth(entries)
        valid == {i \in DOMAIN entries : LeaveHasValidDates(entries[i])}
    IN /\ \A i \in valid :
            /\ entries[i].days = Max(1, LeaveSpan(entries[i]))
            /\ \A mk \in DOMAIN byMonth :
                 entries[i] \in Range(byMonth[mk])
                   <=> mk = MonthOf(entries[i].start_date)
       /\ \A mk \in DOMAIN byMonth :
            (\A i \in DOMAIN entries : LeaveMonthKey(entries[i]) = mk
                                         => i \in valid)
              => LeavesMonthDays(entries)[mk] =
                   SumOver({i \in valid :
                              MonthOf(entries[i].start_date) = mk},
                           [i \in valid |-> Max(1, LeaveSpan(entries[i]))])

\* C6, witness: the leave from 2024-01-30 to 2024-02-02 of the matched
\* employee has 4 days, all of them under 2024-01, and one that ends before
\* it starts has 1 day
C6_Witness ==
  /\ "Ana" \in DOMAIN leaves_data
  /\ \E i \in DOMAIN leaves_data["Ana"] :
       /\ leaves_data["Ana"][i].start_date = <<2024, 1, 30>>
       /\ leaves_data["Ana"][i].end_date = <<2024, 2, 2>>
       /\ leaves_data["Ana"][i].days = 4
  /\ \E i \in DOMAIN leaves_data["Ana"] :
       /\ leaves_data["Ana"][i].start_date = <<2024, 1, 10>>
       /\ leaves_data["Ana"][i].end_date = <<2024, 1, 5>>
       /\ leaves_data["Ana"][i].days = 1
  /\ Len(leaves_data["Ana"]) = 2
  /\ DOMAIN LeavesByMonth(leaves_data["Ana"]) = {<<2024, 1>>}
  /\ LeavesMonthDays(leaves_data["Ana"])[<<2024, 1>>] = 5

\* ------------------------------------------------------------------------
\* Claims about the order of the entries
\* ------------------------------------------------------------------------

\* the orders the same entries can be given in
Orders(n) == {p \in [1..n -> 1..n] : \A i \in 1..n : \E j \in 1..n : p[j] = i}

\* the entries taken in the order p
Reorder(list, p) == [i \in DOMAIN list |-> list[p[i]]]

\* C10: building the hours report again from the same worklogs gives the
\* report already built, and building it from any permutation of them gives
\* that report too: same users, projects and issues, same hours per month,
\* same order of rows.
C10_OrderIndependent ==
  /\ HoursReport(hr_worklogs) = hr_report
  /\ \A p \in Orders(Len(hr_worklogs)) :
       HoursReport(Reorder(hr_worklogs, p)) = hr_report

\* ------------------------------------------------------------------------
\* Claims about the archival
\* ------------------------------------------------------------------------

\* the first day of the n-th month after the month of the date
FirstOfMonthAfter(dt, n) ==
  <<(dt[1] * 12 + dt[2] - 1 + n) \div 12,
    ((dt[1] * 12 + dt[2] - 1 + n) % 12) + 1, 1>>

C3_GraceVisible ==
  arch_done =>
    /\ ~show_arch.personal =>
         \A user \in PersonalRows \ PersonalShown :
           user \in DOMAIN archived_users /\ archived_users[user].archived
    /\ ~show_arch.comparison =>
         \A user \in ComparisonRows \ ComparisonShown :
           user \in DOMAIN archived_users /\ archived_users[user].archived
    /\ ~show_arch.leaves =>
         \A user \in LeavesRows \ LeavesShown :
           user \in DOMAIN archived_users /\ archived_users[user].archived

\* ------------------------------------------------------------------------
\* Claims about the variance cells
\* ------------------------------------------------------------------------

\* the severity of the claim for reported j and captured f, in tenths of an
\* hour: pct = |j - f| / f * 100 against 10 and 25
ClaimSeverity(j, f) ==
  IF f > 0
  THEN IF 100 * Abs(j - f) <= 10 * f THEN "normal"
       ELSE IF 100 * Abs(j - f) <= 25 * f THEN "warning"
       ELSE "critical"
  ELSE IF j > 0 THEN "critical" ELSE "normal"

\* the severity a style stands for
SeverityOf ==
  [bg \in {"", "background:#fef3c7;", "background:#fecaca;"} |->
     CASE bg = "" -> "normal"
       [] bg = "background:#fef3c7;" -> "warning"
       [] bg = "background:#fecaca;" -> "critical"]

\* C4: for every pair of non-negative hours (reported, captured) the cell
\* is normal when pct <= 10, warning when 10 < pct <= 25 and critical when
\* pct > 25, pct being |reported - captured| / captured * 100 for
\* captured > 0, else 100 for reported > 0, else 0; reported 11 with
\* captured 10 is normal, reported 13 with captured 10 critical.
C4_VarianceBands ==
  cp_bg # "none" =>
    /\ SeverityOf[cp_bg] = ClaimSeverity(cp_j, cp_f)
    /\ (cp_j = 110 /\ cp_f = 100) => SeverityOf[cp_bg] = "normal"
    /\ (cp_j = 130 /\ cp_f = 100) => SeverityOf[cp_bg] = "critical"

\* ------------------------------------------------------------------------
\* Claims about the transition forest
\* ------------------------------------------------------------------------

\* the hours of an issue the forest shows under a label for a month and a
\* user; 0 where it shows none
ChangeHours(label, key, mo, user) ==
  IF label \notin DOMAIN changes_data THEN 0
  ELSE IF key \notin DOMAIN changes_data[label] THEN 0
  ELSE LET ms == changes_data[label][key].months
       IN IF mo \notin DOMAIN ms THEN 0
          ELSE IF user \notin DOMAIN ms[mo] THEN 0 ELSE ms[mo][user]

\* the hours of the issue the project tree shows for the month and the
\* user; 0 where it shows none
ItemHours(key, mo, user) ==
  IF user \notin DOMAIN personal_data THEN 0
  ELSE IF ProjectOf(key) \notin DOMAIN personal_data[user] THEN 0
  ELSE LET tasks == personal_data[user][ProjectOf(key)]
       IN IF key \notin DOMAIN tasks THEN 0
          ELSE IF mo \notin DOMAIN tasks[key].months THEN 0
          ELSE tasks[key].months[mo]

\* C11: an issue with hours in the months of the report and several changes
\* of Cliente GLOBAL has its full hours of every month under the label of
\* each of the changes, not split between them: under each label every
\* user's hours of every month are the hours the project tree shows for the
\* issue.
C11_MultiTransition ==
  cc_done =>
    \A key \in DOMAIN client_changes :
      \A i \in DOMAIN client_changes[key] :
        \A mo \in Range(months), user \in Range(RawUsers(raw)) :
          ChangeHours(ChangeLabel(client_changes[key][i]), key, mo, user)
            = ItemHours(key, mo, user)

\* an issue with two changes of different labels shows the same hours of a
\* user and a month under both
C11_Witness ==
  /\ cc_done
  /\ \E key \in DOMAIN client_changes :
       \E i, j \in DOMAIN client_changes[key] :
         LET li == ChangeLabel(client_changes[key][i])
             lj == ChangeLabel(client_changes[key][j])
         IN /\ li # lj
            /\ \E mo \in Range(months), user \in Range(RawUsers(raw)) :
                 /\ ChangeHours(li, key, mo, user) > 0
                 /\ ChangeHours(lj, key, mo, user)
                      = ChangeHours(li, key, mo, user)

\* ------------------------------------------------------------------------
\* Claims about the run of main
\* ------------------------------------------------------------------------

\* C12: whenever a request main has made to the tracker or to the HR system,
\* at whatever stage, the best-effort lookups and the searches of the
\* transition feed included, was rejected with an authentication failure
\* (401), the run has ended at once with sys.exit(1) and no report file is
\* written.
C12_AuthFatal ==
  \A p \in asked :
    upstream[p] = 401 => run_end = "sys.exit(1)" /\ ~report_written

\* C13: a run all of whose requests are answered, over feeds in which one
\* record is malformed (a worklog with an unparsable or missing "started",
\* an attendance record with a malformed clock value, a leave with a
\* malformed date), goes through all the records of the feeds and writes
\* the report: no exception raised for the record leaves its component.
C13_BadRecordTolerated ==
  (pc = "end" /\ \A p \in RequestPoints : upstream[p] = 200) =>
    /\ run_end = "done"
    /\ report_written
    /\ worklogs = feed.worklogs
    /\ att_n = Len(feed.attendance)
    /\ leaves_n = Len(feed.leaves)

\* the feed of the request point is unavailable for another reason than the
\* credentials, every other request is answered
Unavailable(p) ==
  /\ upstream[p] = 404
  /\ \A q \in RequestPoints \ {p} : upstream[q] = 200

\* the reconciliation the attendance of the feed gives
ComparisonOfFeed ==
  LET att == GetAttendanceRange(feed.attendance, months,
                                [monthly |-> <<>>, daily |-> <<>>])
  IN BuildComparisonData(raw, matched, att.monthly, months, daily_raw,
                         att.daily)

\* the leave overlay the leaves of the feed give
LeavesOfFeed ==
  BuildLeavesData(matched,
                  GetLeavesInRange(feed.leaves, date_from, date_to, <<>>))

\* a component that is None or empty
EmptyResult(component) == component = <<>> \/ component = <<<<>>>>

\* C14: when one of the optional HR feeds (attendance, leaves, holidays) is
\* unavailable for a reason that is no authentication failure, the run
\* ends with the report written, the worklogs rolled up in it; the
\* component the unavailable feed feeds is empty and the components of the
\* two other feeds hold what these feeds give. Looked at for the feeds
\* without a malformed record.
C14_DegradedFeed ==
  (pc = "end" /\ feed = GoodFeed) =>
    /\ (\E p \in {"attendance", "leaves", "holidays"} : Unavailable(p)) =>
          /\ run_end = "done"
          /\ report_written
          /\ worklogs = feed.worklogs
    /\ Unavailable("attendance") =>
          /\ EmptyResult(main_locals.comparison_data)
          /\ main_locals.leaves_data = <<LeavesOfFeed>>
          /\ main_locals.all_holidays = feed.holidays
    /\ Unavailable("leaves") =>
          /\ main_locals.comparison_data = <<ComparisonOfFeed>>
          /\ EmptyResult(main_locals.leaves_data)
          /\ main_locals.all_holidays = feed.holidays
    /\ Unavailable("holidays") =>
          /\ main_locals.comparison_data = <<ComparisonOfFeed>>
          /\ main_locals.leaves_data = <<LeavesOfFeed>>
          /\ main_locals.all_holidays = <<>>

\* no query of _search_jql_direct is answered with 200 and no issue of raw
\* has a Cliente GLOBAL
NoTransitionFeed ==
  /\ upstream["jql"] # 200
  /\ \A i \in DOMAIN raw : raw[i].cliente_global = "Sin cliente"

\* C15: when every query for the changes of Cliente GLOBAL is rejected and
\* the worklogs name no issue with a Cliente GLOBAL either, the stage of
\* fetch_client_changes returns the empty mapping, the transition forest of
\* the report is empty, and main goes on to the next stage: the run is not
\* ended.
C15_NoTransitionFeed ==
  [][(pc = "changes" /\ NoTransitionFeed) =>
       /\ client_changes' = <<>>
       /\ changes_data' = <<>>
       /\ cc_done'
       /\ pc' = "factorial"
       /\ run_end' = "running"]_vars

\* a run with worklogs and without a transition feed has written its report
C15_Witness ==
  /\ NoTransitionFeed
  /\ raw # <<>>
  /\ cc_done
  /\ client_changes = <<>>
  /\ changes_data = <<>>
  /\ run_end = "done"
  /\ report_written

\* ------------------------------------------------------------------------
\* Claims about the candidates of the identity search
\* ------------------------------------------------------------------------

\* the employment of the employee does not overlap the report range: it
\* ended before the first day of the range or began after its last day
OutsidePeriod(emp) ==
  \/ /\ emp.terminated_on # NoDate
     /\ DateLT(emp.terminated_on, <<date_from[1], date_from[2], 1>>)
  \/ /\ emp.start_date # NoDate
     /\ DateLT(<<date_to[1], date_to[2],
                 DaysInMonth(date_to[1], date_to[2])>>, emp.start_date)

\* C16: an HR employee whose employment does not overlap the report range,
\* with or without a termination date, is no candidate of the identity
\* search, and once the search and the fallback of main are done no
\* tracker account has been found for the employee, no user is matched to
\* the employee and no archival entry stands for the employee.
C16_PeriodExclusion ==
  \A email \in DOMAIN all_fact_employees :
    LET emp == all_fact_employees[email] IN
    OutsidePeriod(emp) =>
      /\ \A i \in DOMAIN candidates : candidates[i] # email
      /\ arch_done =>
           /\ \A aid \in DOMAIN found : EmailOf[aid] # email
           /\ \A user \in DOMAIN matched :
                matched[user].factorial_id # emp.id
           /\ \A user \in DOMAIN archived_users :
                ~(/\ NameNorm[user] = NameNorm[emp.full_name]
                  /\ archived_users[user].terminated_on = emp.terminated_on)

\* ------------------------------------------------------------------------
\* One author, one day, two issues of one project
\* ------------------------------------------------------------------------
ScenarioDay == <<2024, 1, 10>>

\* 3.5 h on ABC-1 and 2.0 h on ABC-2, both on the day
Entry35 ==
  [aid |-> "a1", key |-> <<"ABC", "1">>, started |-> Ts(ScenarioDay, 10, 0),
   seconds |-> 12600]

Entry20 ==
  [aid |-> "a1", key |-> <<"ABC", "2">>, started |-> Ts(ScenarioDay, 15, 0),
   seconds |-> 7200]

\* the two entries, an entry of the author in another month and an entry of
\* another author on the day
ScenarioWorklogs ==
  { Entry35, Entry20,
    [aid |-> "a1", key |-> <<"ABC", "1">>, started |-> MidTs,
     seconds |-> 3600],
    [aid |-> "a3", key |-> <<"ABC", "2">>, started |-> Ts(ScenarioDay, 10, 0),
     seconds |-> 3600] }

ScenarioShifts ==
  { Shift(1, ScenarioDay, 360), Shift(1, <<2024, 1, 11>>, 360),
    Shift(2, ScenarioDay, 360), Shift(1, ScenarioDay, 120) }

ScenarioNext ==
  \/ \E wl \in ScenarioWorklogs : FetchWorklog(wl)
  \/ \E rec \in ScenarioShifts : AddAttendance(rec)

SpecScenario == CompareInit /\ [][ScenarioNext]_vars

\* buildPersonal with no client selected and every month visible: pM[m] of
\* a project of a user, in tenths
ProjectMonth(user, proj, mo) ==
  LET tasks == personal_data[user][proj]
      keys == {key \in DOMAIN tasks : mo \in DOMAIN tasks[key].months}
  IN SumOver(keys, [key \in keys |-> tasks[key].months[mo]])

\* cpDiffCell: diff = j - f, in tenths
cpDiff(j, f) == j - f

\* the entries of January 2024 that fetch_worklogs was given for Ana are the
\* two of the scenario, each once, and the attendance of her employee on the
\* day is 6.0 h
ScenarioGiven ==
  LET mine == SelectSeq(worklogs,
                LAMBDA wl : /\ DisplayName[wl.aid] = "Ana"
                            /\ MonthOf(wl.started.date) = <<2024, 1>>)
  IN /\ Len(mine) = 2
     /\ Range(mine) = {Entry35, Entry20}
     /\ "Ana" \in DOMAIN matched
     /\ Get0(att_daily, <<matched["Ana"].factorial_id, ScenarioDay>>)
          = HOfMinutes(360)

\* C17: a matched author with two entries in January on one day, 3.5 h on
\* ABC-1 and 2.0 h on ABC-2, and an attendance of 6.0 h on that day has a
\* day record of the reconciliation with 5.5 reported and 6.0 captured, so
\* a difference of -0.5 and a percentage of about 8.3 that takes no warning
\* colour, and the project rollup of the author shows 5.5 for project ABC
\* in January.
C17_Scenario ==
  ScenarioGiven =>
    /\ "Ana" \in DOMAIN comparison_data
    /\ <<2024, 1>> \in DOMAIN comparison_data["Ana"].months
    /\ LET md == comparison_data["Ana"].months[<<2024, 1>>] IN
       /\ ScenarioDay \in DOMAIN md.days
       /\ md.days[ScenarioDay] = [jira |-> 55, factorial |-> 60]
       /\ cpDiff(md.days[ScenarioDay].jira, md.days[ScenarioDay].factorial)
            = -5
       /\ LET pct == cpPct(CpNumber(md.days[ScenarioDay].jira),
                           CpNumber(md.days[ScenarioDay].factorial))
          IN /\ FCmp(pct, FRatio(83, 10)) > 0
             /\ FCmp(pct, FRatio(84, 10)) < 0
             /\ cpBg(pct) = ""
    /\ "Ana" \in DOMAIN personal_data
    /\ "ABC" \in DOMAIN personal_data["Ana"]
    /\ ProjectMonth("Ana", "ABC", <<2024, 1>>) = 55

\* the scenario has happened, with the entry of the other author on the day
\* as well
C17_Witness ==
  /\ ScenarioGiven
  /\ Len(worklogs) = 3
  /\ \E i \in DOMAIN worklogs : worklogs[i].aid = "a3"
  /\ comparison_data["Ana"].months[<<2024, 1>>].days[ScenarioDay].jira = 55

\* ------------------------------------------------------------------------
\* Claims about the allow-list
\* ------------------------------------------------------------------------

\* the time entries of the feed that have a "started" in the window of the
\* report and an author among the accounts S
EntriesOf(S) ==
  {i \in DOMAIN worklogs : /\ worklogs[i].started # NoTs
                           /\ InWindow(worklogs[i])
                           /\ worklogs[i].aid \in S}

\* the nodes of raw and the days of daily_raw hold the hours of the entries R
\* of the feed and of no other, every entry of R has its node and its day,
\* and the project tree has no user but the authors of R
ContributorsAre(R) ==
  /\ \A j \in DOMAIN raw :
       raw[j].hours.s = EntrySeconds(R, raw[j].user, raw[j].month, raw[j].key)
  /\ \A j \in DOMAIN daily_raw :
       daily_raw[j].hours.s =
         EntryDaySeconds(R, daily_raw[j].user, daily_raw[j].day)
  /\ \A i \in R :
       /\ \E j \in DOMAIN raw :
            /\ raw[j].user = DisplayName[worklogs[i].aid]
            /\ raw[j].month = MonthOf(worklogs[i].started.date)
            /\ raw[j].key = worklogs[i].key
       /\ \E j \in DOMAIN daily_raw :
            /\ daily_raw[j].user = DisplayName[worklogs[i].aid]
            /\ daily_raw[j].day = worklogs[i].started.date
  /\ \A user \in DOMAIN personal_data :
       \E i \in R : DisplayName[worklogs[i].aid] = user

\* C18: with an allow-list that is present and not empty, the time entries
\* that contribute to the rollups and to the reported sums of the days are
\* entries of authors whose account is in the allow-list, and no entry of
\* another author contributes; with no allow-list, or an empty one, the
\* entries of every author of the feed contribute.
C18_AllowListScoping ==
  IF allowed_account_ids # {}
  THEN ContributorsAre(EntriesOf(allowed_account_ids))
  ELSE ContributorsAre(EntriesOf(AccountIds))

\* an entry of an account outside the report groups and an entry of a member
\* have gone through: the member is in the rollups, the other author is not
C18_Witness ==
  /\ allowed_account_ids = {"a1", "a2", "a3"}
  /\ date_from = <<2023, 12>>
  /\ \E i \in DOMAIN worklogs : worklogs[i].aid = "a4"
  /\ \E i \in DOMAIN worklogs :
       worklogs[i].aid = "a3" /\ worklogs[i].started = MidTs
  /\ "Bob" \in DOMAIN personal_data
  /\ "Zoe" \notin DOMAIN personal_data
  /\ \A j \in DOMAIN daily_raw : daily_raw[j].user # "Zoe"

\* ------------------------------------------------------------------------
\* Claims about the days of the reconciliation
\* ------------------------------------------------------------------------

\* the days of the calendar that lie in a month
DaysOfCalendar(mo) == {dt \in CalendarDays : MonthOf(dt) = mo}

\* the reported hours of a user on a day, 0 when daily_raw has no such day
ReportedOn(name, day) == JiraDayHours(daily_raw, name, day)

\* the captured hours of an employee on a day, 0 when the attendance has no
\* such day
CapturedOn(fid, day) == Get0(att_daily, <<fid, day>>)

\* the day has a record in the output
DayRecorded(out, name, mo, day) ==
  /\ name \in DOMAIN out
  /\ mo \in DOMAIN out[name].months
  /\ day \in DOMAIN out[name].months[mo].days

\* C19: for every matched employee, every month of the range and every day
\* of the calendar of that month, 29 February of a leap year included, the
\* reported and the captured hours of the day count as 0 when there are
\* none, and the output has a record of the day exactly when one of the two
\* is not zero.
C19_DayRetention ==
  LET out == comparison_data IN
  \A name \in DOMAIN matched :
    \A mo \in Range(months) :
      \A day \in DaysOfCalendar(mo) :
        DayRecorded(out, name, mo, day)
          <=> \/ ReportedOn(name, day) # HZero
              \/ CapturedOn(matched[name].factorial_id, day) # HZero

\* ------------------------------------------------------------------------
\* Claims about the month of a transition
\* ------------------------------------------------------------------------

\* C20: the hours shown for an issue under the label of a transition are
\* hours of other months than the month of the transition: under the label
\* the issue shows no hours of any user for the month its change_date lies
\* in.
C20_TransitionMonthExcluded ==
  cc_done =>
    \A label \in DOMAIN changes_data :
      \A key \in DOMAIN changes_data[label] :
        \A user \in Range(RawUsers(raw)) :
          ChangeHours(label, key,
                      MonthOf(changes_data[label][key].change_date), user) = 0

\* ------------------------------------------------------------------------
\* Claims about the fallback by name
\* ------------------------------------------------------------------------

\* the terminated employees of the directory whose normalised full name is
\* the normalised display name dn
TerminatedNamesakes(dn) ==
  {e \in DOMAIN all_fact_employees :
     /\ all_fact_employees[e].terminated_on # NoDate
     /\ NameNorm[all_fact_employees[e].full_name] = NameNorm[dn]}

\* the first day of the second month after the month of a date
SecondMonthAfter(dt) ==
  LET k == dt[1] * 12 + (dt[2] - 1) + 2 IN <<k \div 12, (k % 12) + 1, 1>>

\* C21: in the step of main that ends the search by e-mail with the fallback
\* by name, a tracker user in scope who has no archival entry from the search
\* by e-mail and whose normalised display name is the normalised full name
\* of a terminated employee receives an entry with the termination date of
\* that employee and the archived flag computed from it, and a user whose
\* normalised name is the name of no terminated employee receives none.
C21_NameFallback ==
  [][(~arch_done /\ arch_done') =>
       \A aid \in DOMAIN groups_info' :
         LET dn == groups_info'[aid].displayName IN
         dn \notin DOMAIN archived_users =>
           IF TerminatedNamesakes(dn) # {}
           THEN /\ dn \in DOMAIN archived_users'
                /\ \E e \in TerminatedNamesakes(dn) :
                     LET t == all_fact_employees[e].terminated_on IN
                     archived_users'[dn] =
                       [terminated_on |-> t,
                        archived |-> ~DateLT(today, SecondMonthAfter(t))]
           ELSE dn \notin DOMAIN archived_users']_vars

\* ------------------------------------------------------------------------
\* Claims about malformed leave records
\* ------------------------------------------------------------------------

\* C22: a leave record whose start or end date is malformed or missing is in
\* no employee's leave list and adds no day to the leave overlay: every
\* entry of leaves_data has two dates of the calendar, and the days of every
\* month row are the days of such entries.
C22_MalformedLeaveDropped ==
  \A name \in DOMAIN leaves_data :
    LET entries == leaves_data[name]
        valid == {i \in DOMAIN entries : LeaveHasValidDates(entries[i])}
    IN /\ \A i \in DOMAIN entries : i \in valid
       /\ \A mk \in DOMAIN LeavesMonthDays(entries) :
            LeavesMonthDays(entries)[mk] =
              SumOver({i \in valid : LeaveMonthKey(entries[i]) = mk},
                      [i \in valid |-> entries[i].days])

\* ------------------------------------------------------------------------
\* Claims about the order of the sources of fetch_client_changes
\* ------------------------------------------------------------------------

\* the issues to look at when the 'changed' queries come first, the
\* 'is not EMPTY' queries second and the keys of the worklogs last
IssuesInOrder(q, keys) ==
  IF q.changed[1].ok THEN q.changed[1].issues
  ELSE IF q.changed[2].ok THEN q.changed[2].issues
  ELSE IF q.notempty[1].ok /\ q.notempty[1].issues # <<>>
       THEN q.notempty[1].issues
  ELSE IF q.notempty[2].ok /\ q.notempty[2].issues # <<>>
       THEN q.notempty[2].issues
  ELSE KeyList(keys)

\* C23: fetch_client_changes takes its issues from the 'changed' queries
\* first, from the 'is not EMPTY' queries only when the 'changed' queries are
\* not supported, and from the issue keys of the worklogs only when the
\* 'is not EMPTY' queries yield nothing: the changes it returns are those of
\* the issues of the first source in this order.
C23_FallbackOrder ==
  cc_done =>
    LET issues == IssuesInOrder(jql, KeysWithClient(raw)) IN
    /\ DOMAIN client_changes =
         {k \in Range(issues) :
            changelog[k].ok /\ IssueChanges(changelog[k].histories) # <<>>}
    /\ \A k \in DOMAIN client_changes :
         client_changes[k] = IssueChanges(changelog[k].histories)

\* ------------------------------------------------------------------------
\* The TOTAL rows of the three views with a "Mostrar archivados" box; pd, cd
\* and ld are PERSONAL, COMPARISON and LEAVES of the page
\* ------------------------------------------------------------------------

\* buildPersonal: uM[m] of a user
PersonalUserMonth(pd, user, mo) ==
  LET cells == {<<proj, key>> \in (DOMAIN pd[user]) \X IssueKeys :
                  /\ key \in DOMAIN pd[user][proj]
                  /\ mo \in DOMAIN pd[user][proj][key].months}
  IN SumOver(cells, [c \in cells |-> pd[user][c[1]][c[2]].months[mo]])

\* buildPersonal: uTotal of a user
PersonalUserTotal(pd, user) ==
  SumSeq([i \in DOMAIN months |-> PersonalUserMonth(pd, user, months[i])])

\* the users whose hours the totals would hold if the test of the box came
\* before the sums
PersonalCountedShown(pd, showArch) ==
  {user \in DOMAIN pd :
     PersonalUserTotal(pd, user) # 0 /\ ~(~showArch /\ isArchived(user))}

\* buildPersonal: the users whose hours are added to mTotals and gt; the
\* test of the box comes after the sums
PersonalCounted(pd, showArch) ==
  {user \in DOMAIN pd : PersonalUserTotal(pd, user) # 0}

\* buildPersonal: mTotals by month and gt
PersonalTotalRow(pd, showArch) ==
  LET cnt == PersonalCounted(pd, showArch) IN
  [months |-> [mo \in Range(months) |->
                 SumOver(cnt, [u \in cnt |-> PersonalUserMonth(pd, u, mo)])],
   grand |-> SumOver(cnt, [u \in cnt |-> PersonalUserTotal(pd, u)])]

\* buildComparison: tJ and tF, added before the test of the box
ComparisonTotalRow(cd, showArch) ==
  LET tot == [u \in DOMAIN cd |-> CpUserTotals(cd[u], months)]
      cnt == {u \in DOMAIN cd : ~(tot[u].jira = 0 /\ tot[u].factorial = 0)}
  IN [jira |-> SumOver(cnt, [u \in cnt |-> tot[u].jira]),
      factorial |-> SumOver(cnt, [u \in cnt |-> tot[u].factorial])]

\* buildLeaves: totalDays, added before the test of the box
LeavesTotalDays(ld, showArch) ==
  SumOver(DOMAIN ld,
          [u \in DOMAIN ld |->
             SumSeq([i \in DOMAIN ld[u] |-> ld[u][i].days])])

\* the runs whose totals are looked at: on two days, with Ana and the BOB of
\* rob@x terminated or not
TotalsInit ==
  /\ ArchiveInit
  /\ today \in {<<2024, 3, 1>>, <<2024, 6, 1>>}
  /\ all_fact_employees["zoe@x"].terminated_on = NoDate
  /\ all_fact_employees["bo@x"].terminated_on = NoDate

SpecTotals == TotalsInit /\ [][ArchiveNext]_vars

\* C24: in the views by person, of the comparison and of the leaves, the
\* TOTAL row (the totals of the months, the grand total, the total of the
\* days) is the same with the "Mostrar archivados" box ticked and unticked:
\* the hours and days of the archived users who are hidden are counted.
C24_TotalsIgnoreToggle ==
  LET pd == personal_data
      cd == comparison_data
      ld == leaves_data
  IN /\ PersonalTotalRow(pd, show_arch.personal)
          = PersonalTotalRow(pd, ~show_arch.personal)
     /\ ComparisonTotalRow(cd, show_arch.comparison)
          = ComparisonTotalRow(cd, ~show_arch.comparison)
     /\ LeavesTotalDays(ld, show_arch.leaves)
          = LeavesTotalDays(ld, ~show_arch.leaves)

\* Ana has an archival entry and rows in the three views; her row by person
\* is hidden and her hours are the grand total; the box of the comparison
\* has been ticked
C24_Witness ==
  /\ arch_done
  /\ isArchived("Ana")
  /\ ~show_arch.personal /\ show_arch.comparison
  /\ Len(raw) = 1 /\ raw[1].user = "Ana"
  /\ "Ana" \in PersonalRows /\ "Ana" \notin PersonalShown
  /\ "Ana" \in ComparisonShown /\ "Ana" \in LeavesRows
  /\ PersonalTotalRow(personal_data, show_arch.personal).grand
       = PersonalTotal("Ana")
  /\ PersonalTotal("Ana") > 0
  /\ LeavesTotalDays(leaves_data, show_arch.leaves) > 0

\* ------------------------------------------------------------------------
\* JiraClient._request and FactorialClient._request: the retry loop around
\* session.request
\* ------------------------------------------------------------------------
\* the default of the parameter max_retries; no caller passes another value
max_retries == 3

\* what session.request can give: a response with a status and, for 429, a
\* Retry-After header in seconds (0 is no header), or an exception
Response(status, retry_after) == [status |-> status, retry_after |-> retry_after, exc |-> "none"]

Raises(exc) == [status |-> 0, retry_after |-> 0, exc |-> exc]

HttpStatuses == {200, 400, 401, 403, 404, 500, 503}

Outcomes ==
  {Response(st, 0) : st \in HttpStatuses}
    \cup {Response(429, ra) : ra \in {0, 2}}
    \cup {Raises("ConnectionError"), Raises("ChunkedEncodingError")}

\* the exceptions the except clause of the loop catches
Caught(client) == IF client = "jira" THEN {"ConnectionError", "ChunkedEncodingError"} ELSE {"ConnectionError"}

\* the statuses that end the process with sys.exit(1)
ExitStatuses(client) == IF client = "jira" THEN {401, 403} ELSE {401}

RECURSIVE Pow2(_)
Pow2(n) == IF n = 0 THEN 1 ELSE 2 * Pow2(n - 1)

\* one turn of the loop on the outcome o: how the turn ends ("continue" is
\* the next turn) and the seconds slept
TurnRetriesAll(client, attempt, o) ==
  IF o.exc # "none"
  THEN IF o.exc \in Caught(client)
       THEN [end |-> "continue", wait |-> Pow2(attempt)]
       ELSE [end |-> o.exc, wait |-> 0]
  ELSE IF o.status = 200 THEN [end |-> "return", wait |-> 0]
  ELSE [end |-> "continue", wait |-> Pow2(attempt)]

Turn(client, attempt, o) ==
  IF o.exc # "none"
  THEN IF o.exc \in Caught(client)
       THEN [end |-> "continue", wait |-> Pow2(attempt)]
       ELSE [end |-> o.exc, wait |-> 0]
  ELSE IF o.status = 200 THEN [end |-> "return", wait |-> 0]
  ELSE IF o.status = 429
       THEN [end |-> "continue",
             wait |-> IF o.retry_after = 0 THEN 10 ELSE o.retry_after]
  ELSE IF o.status \in ExitStatuses(client)
       THEN [end |-> "sys.exit(1)", wait |-> 0]
  ELSE IF o.status >= 500
       THEN [end |-> "continue", wait |-> Pow2(attempt)]
  ELSE [end |-> "RuntimeError", wait |-> 0]

\* a caller calls _request of one of the two clients
RequestCall ==
  /\ rq_end = "idle"
  /\ rq_client' \in {"jira", "factorial"}
  /\ rq_end' = "running"
  /\ UNCHANGED <<hoursVars, rangeVars, fetchVars, attVars, leaveVars,
                 archVars, cpVars, runVars, thVars, emVars, rq_attempt, rq_seen,
                 rq_wait>>

\* one turn of "for attempt in range(max_retries)"; the turn that uses up the
\* range goes on to the raise after the loop
RequestAttempt ==
  /\ rq_end = "running"
  /\ rq_attempt < max_retries
  /\ \E o \in Outcomes :
       LET t == Turn(rq_client, rq_attempt, o)
       IN /\ rq_seen' = Append(rq_seen, o)
          /\ rq_wait' = t.wait
          /\ rq_attempt' = IF t.end = "continue" THEN rq_attempt + 1 ELSE rq_attempt
          /\ rq_end' = IF t.end # "continue" THEN t.end
                       ELSE IF rq_attempt + 1 < max_retries THEN "running"
                       ELSE "RuntimeError"
  /\ UNCHANGED <<hoursVars, rangeVars, fetchVars, attVars, leaveVars,
                 archVars, cpVars, runVars, thVars, emVars, rq_client>>

RetryInit ==
  /\ HoursIdle /\ RangeFixed /\ FetchIdle /\ AttIdle /\ LeavesIdle /\ ArchIdle
  /\ CpIdle /\ ReqIdle /\ ThIdle /\ EmIdle /\ RunIdle

RetryNext == RequestCall \/ RequestAttempt

\* session.request answers or raises, and time.sleep ends
SpecRetry == RetryInit /\ [][RetryNext]_vars /\ WF_vars(RetryNext)

\* the outcomes the loop is to try again after: 429, 5xx, connection error
Retryable(o) == o.exc = "ConnectionError" \/ (o.exc = "none" /\ (o.status = 429 \/ o.status >= 500))

\* the outcomes that name a status or a connection error
Listed(o) == o.exc \in {"none", "ConnectionError"}

RetryBounded ==
  /\ Len(rq_seen) <= max_retries
  /\ rq_end = "return" => Response(200, 0) = rq_seen[Len(rq_seen)]
  /\ \A i \in 1..Len(rq_seen) : (Listed(rq_seen[i]) /\ ~Retryable(rq_seen[i])) => (i = Len(rq_seen) /\ rq_end # "running")
  /\ \A i \in 1..Len(rq_seen) : (rq_seen[i].exc = "none" /\ rq_seen[i].status \in ExitStatuses(rq_client)) => rq_end = "sys.exit(1)"
  /\ (Len(rq_seen) = max_retries /\ \A i \in 1..max_retries : Retryable(rq_seen[i])) => rq_end = "RuntimeError"

\* C25: whatever session.request gives, _request of either client asks at
\* most max_retries times, returns only a response of status 200, asks no
\* more after 401 (403 for the tracker) or another status it does not retry,
\* raises RuntimeError once max_retries retryable outcomes are used up, and
\* every call ends
C25_BoundedRetry == [](rq_end # "idle" => RetryBounded) /\ (rq_end = "running" ~> rq_end \notin {"idle", "running"})

C25_Witness ==
  /\ rq_end = "RuntimeError"
  /\ Len(rq_seen) = max_retries
  /\ rq_seen[1] = Response(429, 2)
  /\ rq_seen[2] = Response(503, 0)
  /\ rq_seen[3] = Raises("ConnectionError")

\* ------------------------------------------------------------------------
\* the month keys of raw and the months of build_months
\* ------------------------------------------------------------------------
\* C26: every time entry fetch_worklogs has accepted is stored under a month
\* key that is one of build_months(date_from, date_to)
C26_MonthKeyInRange == \A i \in DOMAIN raw : \E k \in DOMAIN months : months[k] = raw[i].month

\* ------------------------------------------------------------------------
\* the project tree and the category tree of generate_html, built from the
\* same raw
\* ------------------------------------------------------------------------
\* time entries of two authors on two issues, of 0.05 h and of 0.2 h
ForestWorklogs == [aid : {"a1", "a3"}, key : {<<"ABC", "1">>, <<"ABC", "2">>}, started : {MidTs}, seconds : {180, 720}]

ForestNext == \E wl \in ForestWorklogs : FetchWorklog(wl)

SpecForest == CompareInit /\ [][ForestNext]_vars

\* the hours of an issue and month in the project tree, over all the authors,
\* in tenths
ProjectTreeHours(pd, key, mo) ==
  LET us == {u \in DOMAIN pd :
               /\ ProjectOf(key) \in DOMAIN pd[u]
               /\ key \in DOMAIN pd[u][ProjectOf(key)]
               /\ mo \in DOMAIN pd[u][ProjectOf(key)][key].months}
  IN SumOver(us, [u \in us |-> pd[u][ProjectOf(key)][key].months[mo]])

\* the hours of an issue and month in the category tree, in tenths
CategoryTreeHours(nd, key, mo) ==
  LET ns == {pc2 \in {<<parent, child>> : parent \in DOMAIN nd, child \in UNION {DOMAIN nd[q] : q \in DOMAIN nd}} :
               /\ pc2[2] \in DOMAIN nd[pc2[1]]
               /\ key \in DOMAIN nd[pc2[1]][pc2[2]]
               /\ mo \in DOMAIN nd[pc2[1]][pc2[2]][key].months}
  IN SumOver(ns, [n \in ns |-> nd[n[1]][n[2]][key].months[mo]])

\* C27: for every work item and every month of the range the hours of the
\* item in the category tree are the sum over the authors of its hours in
\* the project tree, so the two forests have the same total for every month
C27_CrossTreeConservation ==
  LET pd == personal_data
      nd == neuro_data
  IN \A key \in IssueKeys : \A k \in DOMAIN months :
       CategoryTreeHours(nd, key, months[k]) = ProjectTreeHours(pd, key, months[k])

\* ------------------------------------------------------------------------
\* the archive threshold dt_date(archive_y, archive_m, 1), computed at three
\* places from term_dt = dt_date.fromisoformat(term_date)
\* ------------------------------------------------------------------------
\* lines 130-136: the account found outside the report groups
ArchiveDateFound(term_dt) ==
  IF term_dt[2] + 2 > 12 THEN <<term_dt[1] + 1, term_dt[2] + 2 - 12, 1>>
  ELSE <<term_dt[1], term_dt[2] + 2, 1>>

\* the threshold without the carry into the next year
ArchiveDateByNameNoCarry(term_dt) ==
  IF term_dt[2] + 2 > 12 THEN <<term_dt[1], term_dt[2] + 2 - 12, 1>>
  ELSE <<term_dt[1], term_dt[2] + 2, 1>>

\* lines 1820-1826: the fallback by name of main
ArchiveDateByName(term_dt) ==
  IF term_dt[2] + 2 > 12 THEN <<term_dt[1] + 1, term_dt[2] + 2 - 12, 1>>
  ELSE <<term_dt[1], term_dt[2] + 2, 1>>

\* the termination dates looked at: the first, the fifteenth and the last
\* day of every month of two years, one of them a leap year
TermDates ==
  {dt \in {<<y, m, d>> : y \in {2023, 2024}, m \in 1..12,
                         d \in {1, 15, 28, 29, 30, 31}} :
     dt[3] <= DaysInMonth(dt[1], dt[2])}

\* the three places compute the threshold of one termination date
ThresholdCall ==
  /\ th_dates = <<>>
  /\ th_dates' = <<ArchiveDate(th_term), ArchiveDateFound(th_term), ArchiveDateByName(th_term)>>
  /\ UNCHANGED <<hoursVars, rangeVars, fetchVars, attVars, leaveVars,
                 archVars, cpVars, reqVars, runVars, emVars, th_term>>

ThresholdInit ==
  /\ HoursIdle /\ RangeFixed /\ FetchIdle /\ AttIdle /\ LeavesIdle /\ ArchIdle
  /\ CpIdle /\ ReqIdle /\ EmIdle /\ RunIdle
  /\ th_term \in TermDates
  /\ th_dates = <<>>

ThresholdNext == ThresholdCall

SpecThreshold == ThresholdInit /\ [][ThresholdNext]_vars

\* C28: the archive threshold of a termination date is the first day of a
\* month from 1 to 12, its year is the year of the termination plus one
\* exactly when the termination is in November or December, it is later than
\* the termination date, and the three places give the same threshold
C28_ThresholdWellFormed ==
  th_dates # <<>> =>
    /\ \A i \in 1..3 :
         /\ th_dates[i][3] = 1
         /\ th_dates[i][2] \in 1..12
         /\ th_dates[i][1] = th_term[1] + (IF th_term[2] \in {11, 12} THEN 1 ELSE 0)
         /\ DateLT(th_term, th_dates[i])
    /\ th_dates[1] = th_dates[2]
    /\ th_dates[2] = th_dates[3]

C28_Witness == th_term = <<2023, 12, 31>> /\ th_dates = <<<<2024, 2, 1>>, <<2024, 2, 1>>, <<2024, 2, 1>>>>

\* ------------------------------------------------------------------------
\* build_employee_match, called by main with the e-mails of the accounts of
\* groups_info
\* ------------------------------------------------------------------------
\* the HR employees looked at: two employees named Ana with an account
\* each, Bob and Carl
MatchEmployees ==
  [email \in {"ana@x", "ana2@x", "bob@x", "carl@x"} |->
     CASE email = "ana@x" ->
            [id |-> 1, full_name |-> "Ana", start_date |-> <<2023, 1, 2>>,
             terminated_on |-> NoDate]
       [] email = "ana2@x" ->
            [id |-> 5, full_name |-> "Ana", start_date |-> <<2023, 1, 2>>,
             terminated_on |-> NoDate]
       [] email = "bob@x" ->
            [id |-> 6, full_name |-> "Bob", start_date |-> <<2023, 1, 2>>,
             terminated_on |-> NoDate]
       [] email = "carl@x" ->
            [id |-> 2, full_name |-> "Carl", start_date |-> <<2023, 1, 2>>,
             terminated_on |-> NoDate]]

MatchDirectories == {[email \in E |-> MatchEmployees[email]] : E \in SUBSET DOMAIN MatchEmployees}

\* groups_info for the members G of the report groups
GroupsInfoOf(G) == [aid \in G |-> GroupMembers[aid]]

\* main fetches the e-mails of the accounts (lines 1912) and calls
\* build_employee_match
BuildEmployeeMatchCall ==
  /\ ~em_done
  /\ em_done' = TRUE
  /\ LET out == BuildEmployeeMatch(jira_emails, all_fact_employees, groups_info)
     IN /\ em_matched' = out.matched
        /\ em_unmatched_jira' = out.unmatched_jira
  /\ UNCHANGED <<hoursVars, rangeVars, fetchVars, attVars, leaveVars,
                 archVars, cpVars, reqVars, thVars, runVars, jira_emails>>

\* the accounts of jira_emails are those of groups_info, as in main, or
\* others as well
MatchInit ==
  /\ HoursIdle /\ FetchIdle /\ AttIdle /\ LeavesIdle
  /\ date_from = <<2023, 12>> /\ date_to = <<2024, 2>>
  /\ \E G \in {{"a1", "a2", "a3"}, {"a1", "a3"}, {"a2"}} : groups_info = GroupsInfoOf(G)
  /\ allowed_account_ids = DOMAIN groups_info
  /\ today = <<2024, 3, 1>>
  /\ all_fact_employees \in MatchDirectories
  /\ arch_idx = 0
  /\ found = <<>>
  /\ archived_users = <<>>
  /\ arch_done = TRUE
  /\ show_arch = [personal |-> FALSE, comparison |-> FALSE, leaves |-> FALSE]
  /\ CpIdle /\ ReqIdle /\ ThIdle /\ RunIdle
  /\ \E extra \in SUBSET {"a3", "a4"} : jira_emails = FetchJiraUserEmails(DOMAIN groups_info \cup extra)
  /\ em_matched = <<>>
  /\ em_unmatched_jira = <<>>
  /\ em_done = FALSE

MatchNext == BuildEmployeeMatchCall

SpecMatch == MatchInit /\ [][MatchNext]_vars

\* C29: after build_employee_match every tracker account with an e-mail has
\* one entry, in matched or in unmatched_jira: the two together have as many
\* entries as there are such accounts, and the entry of a matched account is
\* the one of its own HR employee, also for accounts that share a display
\* name or have no entry in groups_info
C29_MatchPartition ==
  em_done =>
    /\ Cardinality(DOMAIN em_matched) + Len(em_unmatched_jira) = Len(jira_emails)
    /\ \A i \in DOMAIN jira_emails :
         IF jira_emails[i].email \in DOMAIN all_fact_employees
         THEN /\ MatchName(groups_info, jira_emails[i].aid) \in DOMAIN em_matched
              /\ em_matched[MatchName(groups_info, jira_emails[i].aid)].factorial_id = all_fact_employees[jira_emails[i].email].id
         ELSE \E k \in DOMAIN em_unmatched_jira : em_unmatched_jira[k] = MatchName(groups_info, jira_emails[i].aid)

\* ------------------------------------------------------------------------
\* raw and daily_raw after fetch_worklogs
\* ------------------------------------------------------------------------
\* sum of raw[author][month][issue]["hours"] over the issues, added as
\* Python adds floats, in the order of the dictionary
RawMonthSum(r, user, mo) ==
  LET es == SelectSeq(r, LAMBDA e : e.user = user /\ e.month = mo)
  IN HSum([i \in DOMAIN es |-> es[i].hours])

\* sum of daily_raw[author][day] over the days of the month, likewise
DailyMonthSum(d, user, mo) ==
  LET es == SelectSeq(d, LAMBDA e : e.user = user /\ MonthOf(e.day) = mo)
  IN HSum([i \in DOMAIN es |-> es[i].hours])

\* C30: for every author and every month the sum of the hours of daily_raw
\* over the days of the month is the sum of the hours of raw over the issues
\* of the month, before any rounding
C30_DailyMonthlyAgree ==
  \A user \in {e.user : e \in Range(raw)} \cup {e.user : e \in Range(daily_raw)} :
    \A mo \in {e.month : e \in Range(raw)} \cup {MonthOf(e.day) : e \in Range(daily_raw)} :
      DailyMonthSum(daily_raw, user, mo) = RawMonthSum(raw, user, mo)

====
